---------------------------- MODULE Spec2Model ----------------------------
(***************************************************************************)
(* A model of boost.mustache (src/include/boost/mustache.hpp): the tag     *)
(* scanner (findTag, readSetDelimiter, readTagName, expandTag), the        *)
(* section matcher (findEndTag), the recursive renderer (Renderer::render) *)
(* and the two bundled contexts (PropertyTreeContext, JsonContext).        *)
(*                                                                         *)
(* Text is a sequence of one-character strings; positions are the 0-based  *)
(* size_t offsets of the C++ code, so content[i] of the code is            *)
(* content[i + 1] here (CharAt).  The recursion of render is an explicit   *)
(* call stack of frames; one action is one pass of a loop of the code.     *)
(***************************************************************************)
EXTENDS Integers, Sequences, FiniteSets, TLC

(***************************************************************************)
(* std::string / std::string_view                                          *)
(***************************************************************************)

\* std::string::npos; every position of the model is >= 0
npos == -1

\* std::nullopt of std::optional<size_t> m_errorPos
nullopt == -1

\* what content[i] reads one past the end of a std::string's buffer
NUL == "NUL"

CharAt(content, i) == IF i >= 0 /\ i < Len(content) THEN content[i + 1] ELSE NUL

\* std::isspace in the "C" locale
isspace(c) == c \in {" ", "\n", "\t", "\r"}

\* ::tolower on the letters the model's data uses
tolower(c) ==
    CASE c = "F" -> "f"
      [] c = "A" -> "a"
      [] c = "L" -> "l"
      [] c = "S" -> "s"
      [] c = "E" -> "e"
      [] c = "J" -> "j"
      [] OTHER -> c

\* ::toupper on the letters the model's data uses
toupper(c) ==
    CASE c = "a" -> "A"
      [] c = "b" -> "B"
      [] c = "j" -> "J"
      [] c = "k" -> "K"
      [] c = "x" -> "X"
      [] c = "y" -> "Y"
      [] OTHER -> c

\* std::string(n, ' ')
Spaces(n) == [i \in 1..n |-> " "]

\* string_view::substr(pos, count) throws std::out_of_range when pos > size()
SubstrThrows(content, pos) == pos > Len(content)

\* string_view::substr(pos, count): count is clamped to the rest of the text;
\* a negative count is a size_t difference that wrapped to a huge value
substr(content, pos, count) ==
    IF count < 0 \/ count > Len(content) - pos
    THEN SubSeq(content, pos + 1, Len(content))
    ELSE SubSeq(content, pos + 1, pos + count)

MatchesAt(content, pat, i) ==
    /\ i + Len(pat) <= Len(content)
    /\ \A k \in 1..Len(pat) : content[i + k] = pat[k]

Least(hits) == IF hits = {} THEN npos ELSE CHOOSE i \in hits : \A j \in hits : i <= j

\* content.find(pat, pos): the first offset >= pos where pat occurs, else npos
find(content, pat, pos) ==
    IF pos < 0 THEN npos
    ELSE Least({i \in pos..(Len(content) - Len(pat)) : MatchesAt(content, pat, i)})

RECURSIVE Concat(_)
Concat(seqs) == IF seqs = << >> THEN << >> ELSE Head(seqs) \o Concat(Tail(seqs))

(***************************************************************************)
(* struct Tag                                                              *)
(***************************************************************************)

Tag(type, key, start, end, escapeMode, indentation) ==
    [type |-> type, key |-> key, start |-> start, end |-> end,
     escapeMode |-> escapeMode, indentation |-> indentation]

\* Tag{}: type Null, empty key, start = end = 0, Escape, indentation 0
NullTag == Tag("Null", << >>, 0, 0, "Escape", 0)

(***************************************************************************)
(* Renderer: the scanner                                                   *)
(***************************************************************************)

RECURSIVE SkipSpace(_, _, _)
SkipSpace(content, pos, endPos) ==
    IF pos < endPos /\ isspace(CharAt(content, pos))
    THEN SkipSpace(content, pos + 1, endPos)
    ELSE pos

RECURSIVE SkipName(_, _, _)
SkipName(content, pos, endPos) ==
    IF pos < endPos /\ pos < Len(content) /\ ~isspace(CharAt(content, pos))
    THEN SkipName(content, pos + 1, endPos)
    ELSE pos

NameFrom(content, start, lim) ==
    substr(content, start, SkipName(content, start, lim) - start)

\* Renderer::readTagName; an endPos of npos (the size_t maximum) is no limit
readTagName(content, pos, endPos) ==
    IF endPos = npos
    THEN NameFrom(content, SkipSpace(content, pos, Len(content)), Len(content))
    ELSE NameFrom(content, SkipSpace(content, pos, endPos), endPos)

\* One marker token of readSetDelimiter: the characters from pos up to the
\* first whitespace or lim; err is the offset of an '=' met on the way.
RECURSIVE ReadMarker(_, _, _, _)
ReadMarker(content, pos, lim, acc) ==
    IF pos < lim /\ ~isspace(CharAt(content, pos))
    THEN IF CharAt(content, pos) = "="
         THEN [marker |-> acc, pos |-> pos, err |-> pos]
         ELSE ReadMarker(content, pos + 1, lim, Append(acc, CharAt(content, pos)))
    ELSE [marker |-> acc, pos |-> pos, err |-> nullopt]

\* Renderer::readSetDelimiter: the new marker pair, or the offset of the error
\* (then the markers stay sm, em)
SetDelimiterEnd(r1, r2, sm, em) ==
    IF r2.err # nullopt THEN [sm |-> sm, em |-> em, err |-> r2.err]
    ELSE [sm |-> r1.marker, em |-> r2.marker, err |-> nullopt]

SetDelimiterStart(content, r1, endPos, sm, em) ==
    IF r1.err # nullopt THEN [sm |-> sm, em |-> em, err |-> r1.err]
    ELSE SetDelimiterEnd(r1,
                         ReadMarker(content, SkipSpace(content, r1.pos, endPos),
                                    endPos - 1, << >>),
                         sm, em)

readSetDelimiter(content, pos, endPos, sm, em) ==
    SetDelimiterStart(content,
                      ReadMarker(content, SkipSpace(content, pos, endPos),
                                 endPos, << >>),
                      endPos, sm, em)

\* expandTag's first loop: the line start and the indentation, or npos when a
\* character that is not whitespace precedes the tag on its line
RECURSIVE ExpandBack(_, _, _)
ExpandBack(content, start, indentation) ==
    IF start > 0 /\ CharAt(content, start - 1) # "\n"
    THEN IF ~isspace(CharAt(content, start - 1))
         THEN [start |-> npos, indentation |-> 0]
         ELSE ExpandBack(content, start - 1, indentation + 1)
    ELSE [start |-> start, indentation |-> indentation]

\* expandTag's second loop: the end past the line terminator, or npos
RECURSIVE ExpandFwd(_, _)
ExpandFwd(content, end) ==
    IF end < Len(content) /\ CharAt(content, end - 1) # "\n"
    THEN IF ~isspace(CharAt(content, end))
         THEN npos
         ELSE ExpandFwd(content, end + 1)
    ELSE end

Widened(tag, b, e) ==
    IF b.start = npos \/ e = npos THEN tag
    ELSE [tag EXCEPT !.start = b.start, !.end = e, !.indentation = b.indentation]

\* a plausible slip: the tag is never widened
expandTagNever(tag, content) == tag

\* Renderer::expandTag: the tag is widened only when both loops run through
expandTag(tag, content) == Widened(tag, ExpandBack(content, tag.start, 0),
                                   ExpandFwd(content, tag.end))

\* findTag once the markers are found: the tag's type and key by the
\* character after the start marker (p), e being the end marker's offset
Classify(content, typeChar, tagStartPos, tagEndPos, p, e, endTache) ==
    CASE typeChar = "#" ->
           Tag("SectionStart", readTagName(content, p + 1, e), tagStartPos,
               tagEndPos, "Escape", 0)
      [] typeChar = "^" ->
           Tag("InvertedSectionStart", readTagName(content, p + 1, e),
               tagStartPos, tagEndPos, "Escape", 0)
      [] typeChar = "/" ->
           Tag("SectionEnd", readTagName(content, p + 1, e), tagStartPos,
               tagEndPos, "Escape", 0)
      [] typeChar = "!" ->
           Tag("Comment", << >>, tagStartPos, tagEndPos, "Escape", 0)
      [] typeChar = ">" ->
           Tag("Partial", readTagName(content, p + 1, e), tagStartPos,
               tagEndPos, "Escape", 0)
      [] typeChar = "=" ->
           Tag("SetDelimiter", << >>, tagStartPos, tagEndPos, "Escape", 0)
      [] typeChar = "&" ->
           Tag("Value", readTagName(content, p + 1, e), tagStartPos,
               tagEndPos, "Unescape", 0)
      [] typeChar = "{" ->
           IF endTache = e
           THEN Tag("Value", readTagName(content, p + 1, e), tagStartPos,
                    tagEndPos + 1, "Raw", 0)
           ELSE Tag("Value", readTagName(content, p + 1, endTache),
                    tagStartPos, tagEndPos, "Raw", 0)
      [] OTHER ->
           Tag("Value", readTagName(content, p, e), tagStartPos, tagEndPos,
               "Escape", 0)

\* the tag, and what readSetDelimiter (sd) made of the markers
Found(content, tag, sd) ==
    [tag |-> IF tag.type # "Value" THEN expandTag(tag, content) ELSE tag,
     sm |-> sd.sm, em |-> sd.em, err |-> sd.err]

\* findTag from the offset p after the start marker and the offset e of the
\* end marker
FoundAt(content, tagStartPos, p, e, sm, em) ==
    Found(content,
          Classify(content, CharAt(content, p), tagStartPos, e + Len(em), p, e,
                   find(content, <<"}">>, p + 1)),
          IF CharAt(content, p) = "="
          THEN readSetDelimiter(content, p + 1, e, sm, em)
          ELSE [sm |-> sm, em |-> em, err |-> nullopt])

FindEnd(content, tagStartPos, endAt, sm, em) ==
    IF endAt = npos
    THEN [tag |-> NullTag, sm |-> sm, em |-> em, err |-> nullopt]
    ELSE FoundAt(content, tagStartPos, tagStartPos + Len(sm), endAt, sm, em)

FindStart(content, tagStartPos, endPos, sm, em) ==
    IF tagStartPos = npos \/ tagStartPos >= endPos
    THEN [tag |-> NullTag, sm |-> sm, em |-> em, err |-> nullopt]
    ELSE FindEnd(content, tagStartPos,
                 find(content, em, tagStartPos + Len(sm)), sm, em)

\* Renderer::findTag with the active markers sm, em.  The result carries the
\* tag, the markers after the call (readSetDelimiter may replace them) and
\* err, the offset at which readSetDelimiter called setError (or nullopt).
findTag(content, pos, endPos, sm, em) ==
    FindStart(content, find(content, sm, pos), endPos, sm, em)

(***************************************************************************)
(* Data.  A property tree node is [data, kids]: its own string and the     *)
(* ordered (key, node) children.  Keys and strings are texts.              *)
(* A JSON value is [t, b, n, s, a, o]: its kind and, by kind, its boolean, *)
(* its integer, its string, its elements or its (key, value) members.      *)
(***************************************************************************)

Pt(data, kids) == [data |-> data, kids |-> kids]
Kid(k, v) == [k |-> k, v |-> v]

\* a default-constructed ptree
PtEmpty == Pt(<< >>, << >>)

JValue(t, b, n, s, a, o) == [t |-> t, b |-> b, n |-> n, s |-> s, a |-> a, o |-> o]
JNull == JValue("null", FALSE, 0, << >>, << >>, << >>)
JBool(b) == JValue("bool", b, 0, << >>, << >>, << >>)
JString(s) == JValue("string", FALSE, 0, s, << >>, << >>)
JInt(n) == JValue("int64", FALSE, n, << >>, << >>, << >>)
JArray(a) == JValue("array", FALSE, 0, << >>, a, << >>)
JObject(members) == JValue("object", FALSE, 0, << >>, << >>, members)

IsDigit(c) == c \in {"0", "1", "2", "3", "4", "5", "6", "7", "8", "9"}

DigitVal(c) ==
    CASE c = "0" -> 0 [] c = "1" -> 1 [] c = "2" -> 2 [] c = "3" -> 3
      [] c = "4" -> 4 [] c = "5" -> 5 [] c = "6" -> 6 [] c = "7" -> 7
      [] c = "8" -> 8 [] c = "9" -> 9

DigitChar(d) == <<"0", "1", "2", "3", "4", "5", "6", "7", "8", "9">>[d + 1]

\* the text is an unsigned decimal numeral
IsNumeral(s) == Len(s) > 0 /\ \A i \in 1..Len(s) : IsDigit(s[i])

RECURSIVE ParseNat(_, _)
ParseNat(s, acc) ==
    IF s = << >> THEN acc ELSE ParseNat(Tail(s), 10 * acc + DigitVal(Head(s)))

\* std::to_string, and operator<< with std::fixed and precision 0, of a
\* non-negative integral value
RECURSIVE FormatNat(_)
FormatNat(n) ==
    IF n < 10 THEN <<DigitChar(n)>>
    ELSE Append(FormatNat(n \div 10), DigitChar(n % 10))

\* ptree::get_value<bool>: the stream translator reads 0 or 1, or else the
\* words true and false; "bad" is ptree_bad_data
PtreeAsBool(data) ==
    CASE data = <<"1">> -> "true"
      [] data = <<"t", "r", "u", "e">> -> "true"
      [] data = <<"0">> -> "false"
      [] data = <<"f", "a", "l", "s", "e">> -> "false"
      [] OTHER -> "bad"

Lower(s) == [i \in 1..Len(s) |-> tolower(s[i])]

(***************************************************************************)
(* PropertyTreeContext                                                     *)
(***************************************************************************)

\* ptree::get_child_optional for a key that is one path segment: the first
\* child of that name; the empty path is the node itself
PtreeHasChild(node, key) ==
    key = << >> \/ \E i \in 1..Len(node.kids) : node.kids[i].k = key

PtreeChild(node, key) ==
    IF key = << >> THEN node
    ELSE node.kids[CHOOSE i \in 1..Len(node.kids) :
                     /\ node.kids[i].k = key
                     /\ \A j \in 1..(i - 1) : node.kids[j].k # key].v

RECURSIVE PtreeWalk(_, _, _)
PtreeWalk(stack, key, i) ==
    IF i = 0 THEN PtEmpty
    ELSE IF PtreeHasChild(stack[i], key) THEN PtreeChild(stack[i], key)
    ELSE PtreeWalk(stack, key, i - 1)

\* a plausible slip: the frames are searched from the root up
PtreeGetValueOutermost(stack, key) ==
    IF key = <<".">> THEN stack[Len(stack)]
    ELSE IF \E i \in 1..Len(stack) : PtreeHasChild(stack[i], key)
    THEN PtreeChild(stack[CHOOSE i \in 1..Len(stack) :
                            /\ PtreeHasChild(stack[i], key)
                            /\ \A j \in 1..(i - 1) : ~PtreeHasChild(stack[j], key)],
                    key)
    ELSE PtEmpty

\* PropertyTreeContext::getValue
PtreeGetValue(stack, key) ==
    IF key = <<".">> THEN stack[Len(stack)]
    ELSE PtreeWalk(stack, key, Len(stack))

\* PropertyTreeContext::isFalse
PtreeFalse(data, b) ==
    IF b # "bad" THEN b = "false"
    ELSE Lower(data) = <<"f", "a", "l", "s", "e">> \/ data = << >>

PtreeValueIsFalse(value) == PtreeFalse(value.data, PtreeAsBool(value.data))

PtreeIsFalse(stack, key) == PtreeValueIsFalse(PtreeGetValue(stack, key))

\* PropertyTreeContext::stringValue
PtreeString(data) ==
    IF IsNumeral(data) THEN FormatNat(ParseNat(data, 0)) ELSE data

PtreeStringValue(stack, key) == PtreeString(PtreeGetValue(stack, key).data)

\* PropertyTreeContext::listCount
PtreeListCount(stack, key) == Len(PtreeGetValue(stack, key).kids)

\* PropertyTreeContext::push
PtreePushed(stack, value, index) ==
    IF value.kids = << >> THEN Append(stack, PtEmpty)
    ELSE IF index >= 0
    THEN IF index < Len(value.kids)
         THEN Append(stack, value.kids[index + 1].v)
         ELSE Append(stack, PtEmpty)
    ELSE Append(stack, value)

PtreePush(stack, key, index) ==
    PtreePushed(stack, PtreeGetValue(stack, key), index)

(***************************************************************************)
(* JsonContext                                                             *)
(***************************************************************************)

JsonHasMember(value, key) ==
    value.t = "object" /\ \E i \in 1..Len(value.o) : value.o[i].k = key

JsonMember(value, key) ==
    value.o[CHOOSE i \in 1..Len(value.o) : value.o[i].k = key].v

RECURSIVE JsonWalk(_, _, _)
JsonWalk(stack, key, i) ==
    IF i = 0 THEN JNull
    ELSE IF JsonHasMember(stack[i], key) THEN JsonMember(stack[i], key)
    ELSE JsonWalk(stack, key, i - 1)

\* JsonContext::getValue
JsonGetValue(stack, key) ==
    IF key = <<".">> THEN stack[Len(stack)]
    ELSE JsonWalk(stack, key, Len(stack))

\* JsonContext::isFalse
JsonValueIsFalse(value) ==
    CASE value.t = "bool" -> ~value.b
      [] value.t = "string" ->
           Lower(value.s) = <<"f", "a", "l", "s", "e">> \/ value.s = << >>
      [] value.t = "null" -> TRUE
      [] OTHER -> FALSE

JsonIsFalse(stack, key) == JsonValueIsFalse(JsonGetValue(stack, key))

\* JsonContext::stringValue
JsonString(value) ==
    CASE value.t = "string" -> value.s
      [] value.t = "bool" ->
           IF value.b THEN <<"t", "r", "u", "e">> ELSE <<"f", "a", "l", "s", "e">>
      [] value.t = "int64" -> FormatNat(value.n)
      [] OTHER -> << >>

JsonStringValue(stack, key) == JsonString(JsonGetValue(stack, key))

\* JsonContext::listCount
JsonCount(value) == IF value.t = "array" THEN Len(value.a) ELSE 0

JsonListCount(stack, key) == JsonCount(JsonGetValue(stack, key))

\* JsonContext::push
JsonPushed(stack, value, index) ==
    IF value.t = "null" THEN Append(stack, JNull)
    ELSE IF index >= 0 /\ value.t = "array"
    THEN IF index < Len(value.a)
         THEN Append(stack, value.a[index + 1])
         ELSE Append(stack, JNull)
    ELSE Append(stack, value)

JsonPush(stack, key, index) ==
    JsonPushed(stack, JsonGetValue(stack, key), index)

(***************************************************************************)
(* class Context, dispatched on the concrete context (kind)                *)
(***************************************************************************)

stringValue(kind, stack, key) ==
    IF kind = "ptree" THEN PtreeStringValue(stack, key)
    ELSE JsonStringValue(stack, key)

isFalse(kind, stack, key) ==
    IF kind = "ptree" THEN PtreeIsFalse(stack, key) ELSE JsonIsFalse(stack, key)

listCount(kind, stack, key) ==
    IF kind = "ptree" THEN PtreeListCount(stack, key)
    ELSE JsonListCount(stack, key)

\* a plausible slip: every iteration pushes the first element
pushFirst(kind, stack, key, index) ==
    IF kind = "ptree" THEN PtreePush(stack, key, 0) ELSE JsonPush(stack, key, 0)

push(kind, stack, key, index) ==
    IF kind = "ptree" THEN PtreePush(stack, key, index)
    ELSE JsonPush(stack, key, index)

\* a plausible slip: the frame of a section stays on the stack
popNothing(stack) == stack

\* PropertyTreeContext::pop and JsonContext::pop
pop(stack) == IF stack # << >> THEN SubSeq(stack, 1, Len(stack) - 1) ELSE stack

\* the key a context of the kind "custom" evaluates itself
FnKey == <<"f">>

\* a plausible slip: no context evaluates a section
canEvalNever(kind, key) == FALSE

\* PropertyTreeContext::canEval; JsonContext inherits Context::canEval; a
\* context of the kind "custom" derives from JsonContext and overrides canEval
\* and eval, for the key FnKey, with the function of the test
\* CustomRendereFunc
canEval(kind, key) == kind = "custom" /\ key = FnKey

\* whether eval of the context calls renderer->render(text, ctx)
evalRenders(kind) == kind = "custom"

\* Context::partialValue: the resolver's text for the name, empty when it has
\* none (PartialFileLoader::getPartial returns {} for a missing file)
partialValue(partials, key) ==
    IF key \in DOMAIN partials THEN partials[key] ELSE << >>

(***************************************************************************)
(* Renderer: escaping and partial indentation                              *)
(***************************************************************************)

EscapeChar(c) ==
    CASE c = "&" -> <<"&", "a", "m", "p", ";">>
      [] c = "<" -> <<"&", "l", "t", ";">>
      [] c = ">" -> <<"&", "g", "t", ";">>
      [] c = "\"" -> <<"&", "q", "u", "o", "t", ";">>
      [] OTHER -> <<c>>

\* a plausible slip: nothing is escaped
escapeHtmlNone(input) == input

\* Renderer::escapeHtml
escapeHtml(input) == Concat([i \in 1..Len(input) |-> EscapeChar(input[i])])

\* one pass of unescapeHtml's loop: every occurrence of pattern from pos on
\* is replaced by the character, the search resuming one past it
RECURSIVE ReplaceAll(_, _, _, _)
ReplaceAll(text, pattern, c, pos) ==
    LET at == find(text, pattern, pos)
    IN IF at = npos THEN text
       ELSE ReplaceAll(SubSeq(text, 1, at) \o <<c>>
                         \o SubSeq(text, at + Len(pattern) + 1, Len(text)),
                       pattern, c, at + 1)

\* a plausible slip: "&amp;" is decoded first, not last
unescapeHtmlAmpFirst(escaped) ==
    LET r1 == ReplaceAll(escaped, <<"&", "a", "m", "p", ";">>, "&", 0)
        r2 == ReplaceAll(r1, <<"&", "l", "t", ";">>, "<", 0)
        r3 == ReplaceAll(r2, <<"&", "g", "t", ";">>, ">", 0)
    IN ReplaceAll(r3, <<"&", "q", "u", "o", "t", ";">>, "\"", 0)

\* Renderer::unescapeHtml
unescapeHtml(escaped) ==
    LET r1 == ReplaceAll(escaped, <<"&", "l", "t", ";">>, "<", 0)
        r2 == ReplaceAll(r1, <<"&", "g", "t", ";">>, ">", 0)
        r3 == ReplaceAll(r2, <<"&", "q", "u", "o", "t", ";">>, "\"", 0)
    IN ReplaceAll(r3, <<"&", "a", "m", "p", ";">>, "&", 0)

\* the value a Value tag appends (Renderer::render, case Value)
Escaped(mode, value) ==
    CASE mode = "Escape" -> escapeHtml(value)
      [] mode = "Unescape" -> unescapeHtml(value)
      [] OTHER -> value

\* the re-indentation loop of Renderer::render, case Partial
RECURSIVE IndentPartial(_, _, _)
IndentPartial(content, indentation, pos) ==
    LET at == find(content, <<"\n">>, pos)
    IN IF at = npos THEN content
       ELSE IF at < Len(content) - 1
       THEN IndentPartial(SubSeq(content, 1, at + 1) \o Spaces(indentation)
                            \o SubSeq(content, at + 2, Len(content)),
                          indentation, at + indentation + 1)
       ELSE IndentPartial(content, indentation, at + indentation + 1)

(***************************************************************************)
(* The state                                                               *)
(***************************************************************************)

\* the calls of findTag one run may make
MaxScans == 24

VARIABLES
    phase,                    \* "idle", "running", "done" or "threw"
    call,                     \* the arguments of the public render in progress
    before,                   \* m_errorPos and the markers as that call found them
    stack,                    \* the frames of the private render, innermost last
    m_partialStack,
    m_error,
    m_errorPos,
    m_errorPartial,
    m_tagStartMarker,
    m_tagEndMarker,
    m_defaultTagStartMarker,
    m_defaultTagEndMarker,
    m_contextStack,           \* the m_contextStack of the call's Context
    result,                   \* what the public render returned
    scans,                    \* history: the calls of findTag so far
    errors                    \* history: the calls of setError so far

vars == <<phase, call, before, stack, m_partialStack, m_error, m_errorPos,
          m_errorPartial, m_tagStartMarker, m_tagEndMarker,
          m_defaultTagStartMarker, m_defaultTagEndMarker, m_contextStack,
          result, scans, errors>>

\* the renderer's fields no step but setTagMarkers writes
defaults == <<m_defaultTagStartMarker, m_defaultTagEndMarker>>

\* the fields setError writes, with their history
errorState == <<m_error, m_errorPos, m_errorPartial, errors>>

markers == <<m_tagStartMarker, m_tagEndMarker>>

\* A frame of render(templ, startPos, endPos, context): its arguments, its
\* locals output and lastTagEnd, and where it stands:
\*   "loop"      at the test of while (!m_errorPos)
\*   "match"     inside findEndTag(templ, tag, endPos), with its locals
\*               tagDepth and pos
\*   "list", "section", "inverted", "partial"
\*               inside the recursive render of that case of the switch
\*   "eval"      inside context->eval(tag.key, inner, this)
\*   "ret"       after the break of the Null case, at return output
\* base is the height of the context stack when the frame was entered.
Frame(text, startPos, endPos, base) ==
    [text |-> text, endPos |-> endPos, lastTagEnd |-> startPos,
     output |-> << >>, pc |-> "loop", tag |-> NullTag, endTag |-> NullTag,
     tagDepth |-> 0, pos |-> 0, i |-> 0, listCount |-> 0,
     tagStartMarker |-> << >>, tagEndMarker |-> << >>, base |-> base]

top == stack[Len(stack)]
caller == stack[Len(stack) - 1]

SetTop(f) == [stack EXCEPT ![Len(stack)] = f]

\* the frame's render call is over: the loop test fails, or the loop was left
Returning(f) == f.pc = "ret" \/ (f.pc = "loop" /\ m_errorPos # nullopt)

\* the frame is about to call findTag from the loop of render
Scanning ==
    /\ phase = "running"
    /\ top.pc = "loop"
    /\ m_errorPos = nullopt
    /\ scans < MaxScans

\* the frame is about to call findTag from the loop of findEndTag
Matching == phase = "running" /\ top.pc = "match" /\ scans < MaxScans

scan == findTag(top.text, top.lastTagEnd, top.endPos,
                m_tagStartMarker, m_tagEndMarker)

look == findTag(top.text, top.pos, top.endPos,
                m_tagStartMarker, m_tagEndMarker)

\* a plausible slip: the text before a tag is not appended
BeforeNone(f, tag) == << >>

\* the text between the cursor and the tag (render, line 387)
Before(f, tag) == substr(f.text, f.lastTagEnd, tag.start - f.lastTagEnd)

ErrDelimiter == "Custom delimiters may not contain '='"
\* a plausible slip: the mismatch is reported as a missing end tag
ErrMismatchAsNoEnd == "No matching end tag found for section"

ErrMismatch == "Tag start/end key mismatch"
ErrNoEndSection == "No matching end tag found for section"
\* a plausible slip: the inverted section reports the section's message
ErrNoEndInvertedAsSection == "No matching end tag found for section"

ErrNoEndInverted == "No matching end tag found for inverted section"
ErrUnexpectedEnd == "Unexpected end tag"

\* a plausible slip: the first error is kept
setErrorOnce(error, at) ==
    IF m_errorPos # nullopt THEN UNCHANGED errorState
    ELSE /\ m_error' = error
         /\ m_errorPos' = at
         /\ m_errorPartial' = IF m_partialStack # << >>
                              THEN m_partialStack[Len(m_partialStack)]
                              ELSE m_errorPartial
         /\ errors' = Append(errors, [error |-> error, pos |-> at])

\* a plausible slip: the error is attributed to the outermost partial
setErrorOutermost(error, at) ==
    /\ m_error' = error
    /\ m_errorPos' = at
    /\ m_errorPartial' = IF m_partialStack # << >> THEN m_partialStack[1]
                         ELSE m_errorPartial
    /\ errors' = Append(errors, [error |-> error, pos |-> at])

\* Renderer::setError
setError(error, at) ==
    /\ m_error' = error
    /\ m_errorPos' = at
    /\ m_errorPartial' = IF m_partialStack # << >>
                         THEN m_partialStack[Len(m_partialStack)]
                         ELSE m_errorPartial
    /\ errors' = Append(errors, [error |-> error, pos |-> at])

\* what one call of findTag leaves in the renderer: the markers, and the error
\* of readSetDelimiter if it raised one
Scanned(r) ==
    /\ m_tagStartMarker' = r.sm
    /\ m_tagEndMarker' = r.em
    /\ scans' = scans + 1
    /\ IF r.err # nullopt THEN setError(ErrDelimiter, r.err)
       ELSE UNCHANGED errorState

(***************************************************************************)
(* Renderer: the public entry points                                       *)
(***************************************************************************)

\* the template text of an input: its pieces in order
Text(pieces) == Concat([k \in 1..Len(pieces) |-> pieces[k].txt])

\* Renderer::setTagMarkers
setTagMarkers(startMarker, endMarker) ==
    /\ phase = "idle"
    /\ m_defaultTagStartMarker' = startMarker
    /\ m_defaultTagEndMarker' = endMarker
    /\ UNCHANGED <<phase, call, before, stack, m_partialStack, errorState, markers,
                   m_contextStack, result, scans>>

\* a plausible slip: the markers of the last call stay in force
ResetErrorOnly ==
    /\ m_error' = ""
    /\ m_errorPos' = nullopt
    /\ m_errorPartial' = << >>
    /\ UNCHANGED markers

\* the first statements of the public render (lines 321-325)
Reset ==
    /\ m_error' = ""
    /\ m_errorPos' = nullopt
    /\ m_errorPartial' = << >>
    /\ m_tagStartMarker' = m_defaultTagStartMarker
    /\ m_tagEndMarker' = m_defaultTagEndMarker

\* Renderer::render(templ, context) on a context just constructed on inp.root;
\* scans, errors and result count from the call on
Render(inp) ==
    /\ phase # "running"
    /\ Reset
    /\ call' = inp
    /\ before' = [errorPos |-> m_errorPos, markers |-> markers]
    /\ m_contextStack' = <<inp.root>>
    /\ stack' = <<Frame(Text(inp.pieces), 0, Len(Text(inp.pieces)), 1)>>
    /\ phase' = "running"
    /\ result' = << >>
    /\ scans' = 0
    /\ errors' = << >>
    /\ UNCHANGED <<m_partialStack, defaults>>

(***************************************************************************)
(* Renderer::render(templ, startPos, endPos, context): one pass of the     *)
(* loop, by the type of the tag findTag returns                            *)
(***************************************************************************)

\* a plausible slip: what follows the last tag is dropped
RestNone(f) == << >>

\* the text from the cursor to the end of the span (render, line 383)
Rest(f) == substr(f.text, f.lastTagEnd, f.endPos - f.lastTagEnd)

\* case Null: the rest of the span is appended and the loop left; substr
\* throws when the cursor is past the end of the text
StepNull ==
    /\ Scanning
    /\ scan.tag.type = "Null"
    /\ scans' = scans + 1
    /\ IF SubstrThrows(top.text, top.lastTagEnd)
       THEN /\ phase' = "threw"
            /\ stack' = << >>
       ELSE /\ stack' = SetTop([top EXCEPT
                   !.output = @ \o Rest(top),
                   !.pc = "ret"])
            /\ UNCHANGED phase
    /\ UNCHANGED <<call, before, m_partialStack, errorState, markers, defaults,
                   m_contextStack, result>>

\* case Value
StepValue ==
    /\ Scanning
    /\ scan.tag.type = "Value"
    /\ scans' = scans + 1
    /\ stack' = SetTop([top EXCEPT
           !.output = @ \o Before(top, scan.tag)
                        \o Escaped(scan.tag.escapeMode,
                                   stringValue(call.kind, m_contextStack,
                                               scan.tag.key)),
           !.lastTagEnd = scan.tag.end])
    /\ UNCHANGED <<phase, call, before, m_partialStack, errorState, markers, defaults,
                   m_contextStack, result>>

\* case SectionStart and case InvertedSectionStart, up to the first pass of
\* findEndTag's loop
StepSectionStart ==
    /\ Scanning
    /\ scan.tag.type \in {"SectionStart", "InvertedSectionStart"}
    /\ scans' = scans + 1
    /\ stack' = SetTop([top EXCEPT
           !.output = @ \o Before(top, scan.tag),
           !.tag = scan.tag,
           !.pc = "match",
           !.tagDepth = 1,
           !.pos = scan.tag.end])
    /\ UNCHANGED <<phase, call, before, m_partialStack, errorState, markers, defaults,
                   m_contextStack, result>>

\* case Partial, up to the recursive render of the partial's content
StepPartial ==
    /\ Scanning
    /\ scan.tag.type = "Partial"
    /\ scans' = scans + 1
    /\ LET tag == scan.tag
           fetched == partialValue(call.partials, tag.key)
           partialContent == IF tag.indentation > 0
                             THEN IndentPartial(fetched, tag.indentation, 0)
                             ELSE fetched
       IN /\ stack' = Append(
                 SetTop([top EXCEPT
                     !.output = @ \o Before(top, tag) \o Spaces(tag.indentation),
                     !.tag = tag,
                     !.pc = "partial",
                     !.tagStartMarker = m_tagStartMarker,
                     !.tagEndMarker = m_tagEndMarker]),
                 Frame(partialContent, 0, Len(partialContent),
                       Len(m_contextStack)))
          /\ m_partialStack' = Append(m_partialStack, tag.key)
    /\ m_tagStartMarker' = m_defaultTagStartMarker
    /\ m_tagEndMarker' = m_defaultTagEndMarker
    /\ UNCHANGED <<phase, call, before, errorState, defaults, m_contextStack, result>>

\* case SetDelimiter: findTag has already called readSetDelimiter
StepSetDelimiter ==
    /\ Scanning
    /\ scan.tag.type = "SetDelimiter"
    /\ Scanned(scan)
    /\ stack' = SetTop([top EXCEPT
           !.output = @ \o Before(top, scan.tag),
           !.lastTagEnd = scan.tag.end])
    /\ UNCHANGED <<phase, call, before, m_partialStack, defaults, m_contextStack,
                   result>>

\* case Comment
StepComment ==
    /\ Scanning
    /\ scan.tag.type = "Comment"
    /\ scans' = scans + 1
    /\ stack' = SetTop([top EXCEPT
           !.output = @ \o Before(top, scan.tag),
           !.lastTagEnd = scan.tag.end])
    /\ UNCHANGED <<phase, call, before, m_partialStack, errorState, markers, defaults,
                   m_contextStack, result>>

\* case SectionEnd
StepSectionEnd ==
    /\ Scanning
    /\ scan.tag.type = "SectionEnd"
    /\ scans' = scans + 1
    /\ setError(ErrUnexpectedEnd, scan.tag.start)
    /\ stack' = SetTop([top EXCEPT
           !.output = @ \o Before(top, scan.tag),
           !.lastTagEnd = scan.tag.end])
    /\ UNCHANGED <<phase, call, before, m_partialStack, markers, defaults,
                   m_contextStack, result>>

(***************************************************************************)
(* Renderer::findEndTag(content, startTag, endPos): one pass of its loop,  *)
(* and, when it returns, the rest of render's SectionStart or              *)
(* InvertedSectionStart case up to the recursive render                    *)
(***************************************************************************)

\* the next tag is the close tag that brings tagDepth to 0
Closing == look.tag.type = "SectionEnd" /\ top.tagDepth = 1

\* the tag does not end the search: the depth is adjusted, pos = nextTag.end
MatchSkip ==
    /\ Matching
    /\ look.tag.type # "Null"
    /\ ~Closing
    /\ Scanned(look)
    /\ stack' = SetTop([top EXCEPT
           !.tagDepth = CASE look.tag.type \in {"SectionStart",
                                                "InvertedSectionStart"} -> @ + 1
                          [] look.tag.type = "SectionEnd" -> @ - 1
                          [] OTHER -> @,
           !.pos = look.tag.end])
    /\ UNCHANGED <<phase, call, before, m_partialStack, defaults, m_contextStack,
                   result>>

\* no tag is left: findEndTag returns a Null tag, and render sets its error
\* unless one is set already
MatchNull ==
    /\ Matching
    /\ look.tag.type = "Null"
    /\ scans' = scans + 1
    /\ IF m_errorPos = nullopt
       THEN setError(IF top.tag.type = "SectionStart" THEN ErrNoEndSection
                     ELSE ErrNoEndInverted, top.tag.start)
       ELSE UNCHANGED errorState
    /\ stack' = SetTop([top EXCEPT !.pc = "loop"])
    /\ UNCHANGED <<phase, call, before, m_partialStack, markers, defaults,
                   m_contextStack, result>>

\* the closing tag has another key: findEndTag sets the error and returns Tag{}
MatchMismatch ==
    /\ Matching
    /\ Closing
    /\ look.tag.key # top.tag.key
    /\ scans' = scans + 1
    /\ setError(ErrMismatch, look.tag.start)
    /\ stack' = SetTop([top EXCEPT !.pc = "loop"])
    /\ UNCHANGED <<phase, call, before, m_partialStack, markers, defaults,
                   m_contextStack, result>>

\* the end tag is found
Matched == Matching /\ Closing /\ look.tag.key = top.tag.key

\* the recursive call render(templ, tag.end, endTag.start, context)
Body(f, endTag, base) == Frame(f.text, f.tag.end, endTag.start, base)

\* a section over a list: the first push(tag.key, 0) and render
EnterList ==
    /\ Matched
    /\ top.tag.type = "SectionStart"
    /\ listCount(call.kind, m_contextStack, top.tag.key) > 0
    /\ scans' = scans + 1
    /\ m_contextStack' = push(call.kind, m_contextStack, top.tag.key, 0)
    /\ stack' = Append(
           SetTop([top EXCEPT
               !.pc = "list", !.endTag = look.tag, !.i = 0,
               !.listCount = listCount(call.kind, m_contextStack, top.tag.key)]),
           Body(top, look.tag, Len(m_contextStack) + 1))
    /\ UNCHANGED <<phase, call, before, m_partialStack, errorState, markers, defaults,
                   result>>

\* a section over a value that is not false: push(tag.key) and render
EnterSection ==
    /\ Matched
    /\ top.tag.type = "SectionStart"
    /\ listCount(call.kind, m_contextStack, top.tag.key) = 0
    /\ ~canEval(call.kind, top.tag.key)
    /\ ~isFalse(call.kind, m_contextStack, top.tag.key)
    /\ scans' = scans + 1
    /\ m_contextStack' = push(call.kind, m_contextStack, top.tag.key, -1)
    /\ stack' = Append(SetTop([top EXCEPT !.pc = "section", !.endTag = look.tag]),
                       Body(top, look.tag, Len(m_contextStack) + 1))
    /\ UNCHANGED <<phase, call, before, m_partialStack, errorState, markers, defaults,
                   result>>

\* an inverted section over a false value: render, the scope as it is
EnterInverted ==
    /\ Matched
    /\ top.tag.type = "InvertedSectionStart"
    /\ isFalse(call.kind, m_contextStack, top.tag.key)
    /\ scans' = scans + 1
    /\ stack' = Append(SetTop([top EXCEPT !.pc = "inverted", !.endTag = look.tag]),
                       Body(top, look.tag, Len(m_contextStack)))
    /\ UNCHANGED <<phase, call, before, m_partialStack, errorState, markers, defaults,
                   m_contextStack, result>>

\* Context::eval of the bundled contexts
eval(kind, key, inner) == << >>

\* the section renders no body: a false value, an inverted section over a
\* value that is not false, or a key the context evaluates itself
SkipBody ==
    /\ Matched
    /\ IF top.tag.type = "SectionStart"
       THEN /\ listCount(call.kind, m_contextStack, top.tag.key) = 0
            /\ IF canEval(call.kind, top.tag.key)
               THEN ~evalRenders(call.kind)
               ELSE isFalse(call.kind, m_contextStack, top.tag.key)
       ELSE ~isFalse(call.kind, m_contextStack, top.tag.key)
    /\ scans' = scans + 1
    /\ stack' = SetTop([top EXCEPT
           !.output =
               IF top.tag.type = "SectionStart" /\ canEval(call.kind, top.tag.key)
               THEN @ \o eval(call.kind, top.tag.key,
                              substr(top.text, top.tag.end,
                                     look.tag.start - top.tag.end))
               ELSE @,
           !.lastTagEnd = look.tag.end,
           !.pc = "loop"])
    /\ UNCHANGED <<phase, call, before, m_partialStack, errorState, markers, defaults,
                   m_contextStack, result>>

\* a section over a key the context evaluates, when eval is the function of
\* the tests: eval(tag.key, inner, this) starts with
\* renderer->render(text, ctx), the public render, which resets the error
\* fields and the markers before it renders the inner text
EnterEval ==
    /\ Matched
    /\ top.tag.type = "SectionStart"
    /\ listCount(call.kind, m_contextStack, top.tag.key) = 0
    /\ canEval(call.kind, top.tag.key)
    /\ evalRenders(call.kind)
    /\ scans' = scans + 1
    /\ Reset
    /\ before' = [errorPos |-> m_errorPos, markers |-> markers]
    /\ LET inner == substr(top.text, top.tag.end, look.tag.start - top.tag.end)
       IN stack' = Append(SetTop([top EXCEPT !.pc = "eval", !.endTag = look.tag]),
                          Frame(inner, 0, Len(inner), Len(m_contextStack)))
    /\ UNCHANGED <<phase, call, m_partialStack, defaults, m_contextStack, result,
                   errors>>

(***************************************************************************)
(* The return of a render call into the case that made it                  *)
(***************************************************************************)

Nested == phase = "running" /\ Len(stack) > 1 /\ Returning(top)

\* for (i ...) { push; output += render(...); pop; }: the return of iteration
\* i, and the next iteration or the end of the loop
ReturnList ==
    /\ Nested
    /\ caller.pc = "list"
    /\ LET popped == pop(m_contextStack)
           f == [caller EXCEPT !.output = @ \o top.output]
       IN IF caller.i + 1 < caller.listCount
          THEN /\ m_contextStack' = push(call.kind, popped, caller.tag.key,
                                         caller.i + 1)
               /\ stack' = SubSeq(stack, 1, Len(stack) - 2)
                             \o <<[f EXCEPT !.i = @ + 1],
                                  Body(caller, caller.endTag, Len(popped) + 1)>>
          ELSE /\ m_contextStack' = popped
               /\ stack' = SubSeq(stack, 1, Len(stack) - 2)
                             \o <<[f EXCEPT !.lastTagEnd = caller.endTag.end,
                                            !.pc = "loop"]>>
    /\ UNCHANGED <<phase, call, before, m_partialStack, errorState, markers, defaults,
                   result, scans>>

\* push(tag.key); output += render(...); pop();
ReturnSection ==
    /\ Nested
    /\ caller.pc = "section"
    /\ m_contextStack' = pop(m_contextStack)
    /\ stack' = SubSeq(stack, 1, Len(stack) - 2)
                  \o <<[caller EXCEPT !.output = @ \o top.output,
                                      !.lastTagEnd = caller.endTag.end,
                                      !.pc = "loop"]>>
    /\ UNCHANGED <<phase, call, before, m_partialStack, errorState, markers, defaults,
                   result, scans>>

\* output += render(...) of an inverted section
ReturnInverted ==
    /\ Nested
    /\ caller.pc = "inverted"
    /\ stack' = SubSeq(stack, 1, Len(stack) - 2)
                  \o <<[caller EXCEPT !.output = @ \o top.output,
                                      !.lastTagEnd = caller.endTag.end,
                                      !.pc = "loop"]>>
    /\ UNCHANGED <<phase, call, before, m_partialStack, errorState, markers, defaults,
                   m_contextStack, result, scans>>

\* std::transform(result.begin(), result.end(), result.begin(), ::toupper)
transform(text) == [i \in 1..Len(text) |-> toupper(text[i])]

\* output += context->eval(...): the function of the tests returns what the
\* public render returned, in upper case
ReturnEval ==
    /\ Nested
    /\ caller.pc = "eval"
    /\ stack' = SubSeq(stack, 1, Len(stack) - 2)
                  \o <<[caller EXCEPT !.output = @ \o transform(top.output),
                                      !.lastTagEnd = caller.endTag.end,
                                      !.pc = "loop"]>>
    /\ UNCHANGED <<phase, call, before, m_partialStack, errorState, markers, defaults,
                   m_contextStack, result, scans>>

\* a plausible slip: the markers the partial leaves stay active
RestoreNothing(f) == UNCHANGED markers

\* m_tagStartMarker = tagStartMarker; m_tagEndMarker = tagEndMarker;
RestoreMarkers(f) ==
    /\ m_tagStartMarker' = f.tagStartMarker
    /\ m_tagEndMarker' = f.tagEndMarker

\* the return from a partial: the partial stack and the saved markers
ReturnPartial ==
    /\ Nested
    /\ caller.pc = "partial"
    /\ stack' = SubSeq(stack, 1, Len(stack) - 2)
                  \o <<[caller EXCEPT !.output = @ \o top.output,
                                      !.lastTagEnd = caller.tag.end,
                                      !.pc = "loop"]>>
    /\ m_partialStack' = SubSeq(m_partialStack, 1, Len(m_partialStack) - 1)
    /\ RestoreMarkers(caller)
    /\ UNCHANGED <<phase, call, before, errorState, defaults, m_contextStack, result,
                   scans>>

\* the return of the public render
ReturnTop ==
    /\ phase = "running"
    /\ Len(stack) = 1
    /\ Returning(top)
    /\ result' = top.output
    /\ phase' = "done"
    /\ stack' = << >>
    /\ UNCHANGED <<call, before, m_partialStack, errorState, markers, defaults,
                   m_contextStack, scans>>

(***************************************************************************)
(* The calls the model makes.  An input is a template, given as pieces (a  *)
(* literal text or one tag each), the root value of the data, the context  *)
(* class wrapping it, and the partials of the resolver.  Inputs come in    *)
(* families, each all the templates of a bounded shape.                    *)
(***************************************************************************)

\* pieces in a template of the families built from all sequences of pieces
MaxPieces == 3
\* pieces in the body of a section of the section family
MaxBody == 2
\* elements of a list of the data
MaxList == 2
\* pieces in the template of a further call on the same Renderer
MaxAgain == 1

SeqsUpTo(S, n) == UNION {[1..k -> S] : k \in 0..n}

OpenM == <<"{", "{">>
CloseM == <<"}", "}">>
AltOpenM == <<"<", "%">>
AltCloseM == <<"%", ">">>

\* a piece: its text, what it is, and for a Value tag, want: what it renders
\* to under the data of its family
Piece(txt, k, want) == [txt |-> txt, k |-> k, want |-> want]
Txt(t) == Piece(t, "text", t)
TagIn(open, inner, close, k) == Piece(open \o inner \o close, k, << >>)
Std(inner, k) == TagIn(OpenM, inner, CloseM, k)
Alt(inner, k) == TagIn(AltOpenM, inner, AltCloseM, k)

\* the data as the tests build it: the JSON value itself, or the property
\* tree that ptree::put and add_child make of the same document
RECURSIVE ToPtree(_)
ToPtree(j) ==
    CASE j.t = "string" -> Pt(j.s, << >>)
      [] j.t = "bool" -> Pt(IF j.b THEN <<"t", "r", "u", "e">>
                            ELSE <<"f", "a", "l", "s", "e">>, << >>)
      [] j.t = "int64" -> Pt(FormatNat(j.n), << >>)
      [] j.t = "array" -> Pt(<< >>, [i \in 1..Len(j.a) |-> Kid(<< >>, ToPtree(j.a[i]))])
      [] j.t = "object" ->
           Pt(<< >>, [i \in 1..Len(j.o) |-> Kid(j.o[i].k, ToPtree(j.o[i].v))])
      [] OTHER -> PtEmpty

Kinds == {"ptree", "json"}

Root(kind, doc) == IF kind = "ptree" THEN ToPtree(doc) ELSE doc

NoPartials == [k \in {} |-> << >>]

\* shape: what the family's formulas need to know of how the template was built
NoShape ==
    [pre |-> << >>, body |-> << >>, post |-> << >>, n |-> 0, inner |-> << >>,
     lead |-> << >>, trail |-> << >>, truthy |-> FALSE, registered |-> {},
     doc |-> JNull]

Input(fam, pieces, kind, doc, partials, config, shape) ==
    [fam |-> fam, pieces |-> pieces, kind |-> kind, root |-> Root(kind, doc),
     partials |-> partials, config |-> config, shape |-> shape]

StdConfig == <<OpenM, CloseM>>
AltConfig == <<AltOpenM, AltCloseM>>

\* ---- family "value": texts and Value tags in every escape mode
ValueDoc ==
    JObject(<<Kid(<<"a">>, JString(<<"J">>)),
              Kid(<<"b">>, JString(<<"<">>)),
              Kid(<<"c">>, JString(<<"&", "l", "t", ";">>))>>)

ValuePieces ==
    {Txt(<<"H">>), Txt(<<" ", "\n">>),
     Piece(OpenM \o <<"a">> \o CloseM, "value", <<"J">>),
     Piece(OpenM \o <<" ", "b", " ">> \o CloseM, "value", <<"&", "l", "t", ";">>),
     Piece(OpenM \o <<"{", "b", "}">> \o CloseM, "value", <<"<">>),
     Piece(OpenM \o <<"&", "c">> \o CloseM, "value", <<"<">>)}

ValueInputs ==
    {Input("value", ps, kind, ValueDoc, NoPartials, StdConfig, NoShape) :
        ps \in SeqsUpTo(ValuePieces, MaxPieces), kind \in Kinds}

\* ---- family "section": one section over x, a list of 1..MaxList elements
\* {a: i}, around a body of texts and Value tags
ListDoc(n) ==
    JObject(<<Kid(<<"x">>,
                  JArray([i \in 1..n |-> JObject(<<Kid(<<"a">>, JInt(i))>>)]))>>)

BodyPieces == {Txt(<<"-">>), Txt(<<" ">>), Std(<<"a">>, "value")}

SectionInputs ==
    {Input("section",
           pre \o <<Std(<<"#", "x">>, "open")>> \o body
               \o <<Std(<<"/", "x">>, "close")>> \o post,
           kind, ListDoc(n), NoPartials, StdConfig,
           [NoShape EXCEPT !.pre = pre, !.body = body, !.post = post, !.n = n]) :
        pre \in {<< >>, <<Txt(<<"H">>)>>},
        body \in SeqsUpTo(BodyPieces, MaxBody),
        post \in {<< >>, <<Txt(<<"!">>)>>},
        kind \in Kinds,
        n \in 1..MaxList}

\* ---- family "both": a section and an inverted section over the same key x,
\* for every kind of value of x
XDoc(v) == JObject(<<Kid(<<"x">>, v)>>)

XValues ==
    {JBool(TRUE), JBool(FALSE), JInt(0), JInt(7),
     JString(<< >>), JString(<<"J">>), JString(<<"F", "a", "l", "s", "e">>),
     JObject(<<Kid(<<"a">>, JString(<<"J">>))>>),
     JArray(<< >>)}
    \cup {JArray([i \in 1..n |-> JString(<<"J">>)]) : n \in 1..MaxList}

BothPieces ==
    <<Std(<<"#", "x">>, "open"), Txt(<<"X">>), Std(<<"/", "x">>, "close"),
      Txt(<<"|">>),
      Std(<<"^", "x">>, "inverted"), Txt(<<"X">>), Std(<<"/", "x">>, "close")>>

BothInputs ==
    {Input("both", BothPieces, kind, XDoc(v), NoPartials, StdConfig, NoShape) :
        kind \in Kinds, v \in XValues}
    \cup {Input("both", BothPieces, kind, JObject(<< >>), NoPartials, StdConfig,
                NoShape) : kind \in Kinds}

\* ---- family "error": every sequence of section tags over a and b, a text,
\* a malformed set-delimiter tag and a partial whose section has no end
ErrorPieces ==
    {Std(<<"#", "a">>, "open"), Std(<<"^", "a">>, "inverted"),
     Std(<<"/", "a">>, "close"), Std(<<"/", "b">>, "close"),
     Txt(<<"x">>), Std(<<"=", "x", "=", "y", "=">>, "delimiter"),
     Std(<<">", "p">>, "partial")}

ErrorPartials == [k \in {<<"p">>} |-> <<"y">> \o OpenM \o <<"#", "a">> \o CloseM]

ErrorDocs ==
    {JObject(<<Kid(<<"a">>, JString(<<"J">>))>>),
     JObject(<<Kid(<<"a">>, JArray(<<JString(<<"1">>), JString(<<"2">>)>>))>>)}

ErrorInputs ==
    {Input("error", ps, kind, doc, ErrorPartials, StdConfig, NoShape) :
        ps \in SeqsUpTo(ErrorPieces, MaxPieces), kind \in Kinds,
        doc \in ErrorDocs}

\* ---- family "partial": partial tags and set-delimiter tags in both marker
\* pairs, for a renderer configured with either pair; the partial p sets its
\* own markers, or raises an error, written in either pair
PartialPieces ==
    {Std(<<">", "p">>, "partial"), Alt(<<">", "p">>, "partial"),
     Std(<<"=", "<", "%", " ", "%", ">", "=">>, "delimiter"),
     Std(<<"a">>, "value"), Alt(<<"a">>, "value")}

PartialTexts ==
    {OpenM \o <<"=", "|", " ", "|", "=">> \o CloseM \o <<"|", "a", "|">>,
     AltOpenM \o <<"=", "|", " ", "|", "=">> \o AltCloseM \o <<"|", "a", "|">>,
     OpenM \o <<"=", "|", " ", "|", "=">> \o CloseM \o <<"|", "/", "z", "|">>,
     AltOpenM \o <<"/", "z">> \o AltCloseM}

PartialInputs ==
    {Input("partial", ps, "json", ValueDoc, [k \in {<<"p">>} |-> text],
           config, NoShape) :
        ps \in SeqsUpTo(PartialPieces, MaxPieces), text \in PartialTexts,
        config \in {StdConfig, AltConfig}}

\* ---- family "standalone": the lines  A, {{#x}}, inner..., {{/x}}, C  where
\* every tag stands alone on its line, after lead and before trail; the inner
\* lines are the text line B ("B"), a comment ("!"), a partial the resolver
\* does not have (">") or a set-delimiter tag ("="), which changes to the
\* other pair of markers, the tags after it being written in that pair
TagLine(lead, inner, trail, alt, k) ==
    Piece(lead \o (IF alt THEN AltOpenM ELSE OpenM) \o inner
               \o (IF alt THEN AltCloseM ELSE CloseM) \o trail \o <<"\n">>,
          k, << >>)

\* whether line j of the inner lines is written in the other pair: an odd
\* number of set-delimiter lines precede it
AltAt(inner, j) == Cardinality({h \in 1..(j - 1) : inner[h] = "="}) % 2 = 1

InnerLine(inner, j, lead, trail) ==
    CASE inner[j] = "B" -> Txt(<<"B", "\n">>)
      [] inner[j] = "!" ->
           TagLine(lead, <<"!", "c">>, trail, AltAt(inner, j), "comment")
      [] inner[j] = ">" ->
           TagLine(lead, <<">", "q">>, trail, AltAt(inner, j), "partial")
      [] inner[j] = "=" ->
           IF AltAt(inner, j)
           THEN TagLine(lead, <<"=", "{", "{", " ", "}", "}", "=">>, trail, TRUE,
                        "delimiter")
           ELSE TagLine(lead, <<"=", "<", "%", " ", "%", ">", "=">>, trail, FALSE,
                        "delimiter")

StandalonePieces(inner, lead, trail) ==
    <<Txt(<<"A", "\n">>), TagLine(lead, <<"#", "x">>, trail, FALSE, "open")>>
      \o [j \in 1..Len(inner) |-> InnerLine(inner, j, lead, trail)]
      \o <<TagLine(lead, <<"/", "x">>, trail, AltAt(inner, Len(inner) + 1), "close"),
           Txt(<<"C", "\n">>)>>

StandaloneInputs ==
    {Input("standalone", StandalonePieces(inner, lead, trail), "json",
           XDoc(JBool(truthy)), NoPartials, StdConfig,
           [NoShape EXCEPT !.inner = inner, !.lead = lead, !.trail = trail,
                           !.truthy = truthy]) :
        inner \in SeqsUpTo({"B", "!", ">", "="}, MaxBody),
        lead \in {<< >>, <<" ">>},
        trail \in {<< >>, <<" ">>},
        truthy \in BOOLEAN}

\* ---- family "unclosed": texts and Value tags, then a start marker that no
\* end marker follows, with what is left of the tag after it
UnclosedTails == {<< >>, <<"a">>, <<"a", "}">>, <<"#", "a", " ">>}

UnclosedInputs ==
    {Input("unclosed", pre \o <<Txt(OpenM \o tail)>>, kind, ValueDoc,
           NoPartials, StdConfig, NoShape) :
        pre \in SeqsUpTo({Txt(<<"H">>),
                          Piece(OpenM \o <<"a">> \o CloseM, "value", <<"J">>)},
                         MaxBody),
        tail \in UnclosedTails, kind \in Kinds}

\* ---- family "nested": the partial p expands the partial q and then its own
\* tail; q, the tail of p and the template itself may each hold an end tag
\* without a section, which raises an error where it stands
NestedPieces ==
    {Std(<<">", "p">>, "partial"), Std(<<">", "q">>, "partial"),
     Std(<<"/", "a">>, "close"), Txt(<<"x">>)}

NestedTexts == {<<"z">>, OpenM \o <<"/", "a">> \o CloseM}

NestedPartials(tail, inner) ==
    [k \in {<<"p">>, <<"q">>} |->
        IF k = <<"p">> THEN OpenM \o <<">", "q">> \o CloseM \o tail ELSE inner]

NestedInputs ==
    {Input("nested", ps, "json", ValueDoc, NestedPartials(tail, inner),
           StdConfig, NoShape) :
        ps \in SeqsUpTo(NestedPieces, MaxPieces),
        tail \in NestedTexts, inner \in NestedTexts}

\* ---- family "escape": the three Value tags of one key v, over values made
\* of the characters escapeHtml replaces and of the entities unescapeHtml reads
EscapeValues ==
    {<<"J">>, <<"<">>, <<">">>, <<"&">>, <<"\"">>,
     <<"&", "l", "t", ";">>, <<"&", "g", "t", ";">>,
     <<"&", "q", "u", "o", "t", ";">>, <<"&", "a", "m", "p", ";">>,
     <<"&", "a", "m", "p", ";", "l", "t", ";">>,
     <<"a", "<", "b", "&", "\"", ">">>}

EscapeInputs ==
    {Input("escape",
           <<Std(<<"v">>, "value"), Std(<<"{", "v", "}">>, "value"),
             Std(<<"&", "v">>, "value")>>,
           kind, JObject(<<Kid(<<"v">>, JString(v))>>), NoPartials, StdConfig,
           [NoShape EXCEPT !.inner = v]) :
        v \in EscapeValues, kind \in Kinds}

\* ---- family "function": the template of the test CustomRendereFunc, with
\* UPPER registered before the call.  registerFunction is declared nowhere in
\* the sources; the tests call it with a key and a callable, and it is taken
\* to add the key to the registered ones.
registerFunction(registered, name) == registered \cup {name}

FunctionInputs ==
    {Input("function",
           <<Txt(<<"H", "e", "l", "l", "o", " ">>),
             Std(<<"#", "U", "P", "P", "E", "R">>, "open"),
             Std(<<"n", "a", "m", "e">>, "value"),
             Std(<<"/", "U", "P", "P", "E", "R">>, "close"),
             Txt(<<"!">>)>>,
           kind,
           JObject(<<Kid(<<"n", "a", "m", "e">>, JString(<<"J", "o", "h", "n">>))>>),
           NoPartials, StdConfig,
           [NoShape EXCEPT
              !.registered = registerFunction({}, <<"U", "P", "P", "E", "R">>)]) :
        kind \in Kinds}

\* ---- family "lookahead": a section over the true value a whose body holds
\* texts and Value tags in the default pair, then a set-delimiter tag, then
\* texts and Value tags in the new pair; the close tag is in the new pair
LookaheadInputs ==
    {Input("lookahead",
           <<Std(<<"#", "a">>, "open")>> \o pre
             \o <<Std(<<"=", "<", "%", " ", "%", ">", "=">>, "delimiter")>>
             \o post \o <<Alt(<<"/", "a">>, "close")>>,
           kind,
           JObject(<<Kid(<<"a">>, JBool(TRUE)), Kid(<<"b">>, JString(<<"J">>))>>),
           NoPartials, StdConfig,
           [NoShape EXCEPT !.pre = pre, !.post = post]) :
        pre \in SeqsUpTo({Txt(<<"-">>), Piece(OpenM \o <<"b">> \o CloseM, "value", <<"J">>)},
                         MaxBody),
        post \in SeqsUpTo({Txt(<<"-">>),
                           Piece(AltOpenM \o <<"b">> \o AltCloseM, "value", <<"J">>)},
                          MaxBody),
        kind \in Kinds}

\* ---- family "raw": a raw Value tag whose closing braces are three, two
\* (with and without a blank before them) or two after a brace of its own,
\* between optional texts
RawInputs ==
    {Input("raw", pre \o <<Piece(OpenM \o raw, "value", <<"<">>)>> \o post, kind,
           ValueDoc, NoPartials, StdConfig, NoShape) :
        pre \in {<< >>, <<Txt(<<"H">>)>>},
        raw \in {<<"{", "b", "}", "}", "}">>, <<"{", "b", "}", "}">>,
                 <<"{", "b", " ", "}", "}">>, <<"{", "b", "}", " ", "}", "}">>},
        post \in {<< >>, <<Txt(<<"x">>)>>},
        kind \in Kinds}

\* ---- family "emptypair": a set-delimiter tag that names no marker ("{{=}}"
\* or "{{= }}"), with an optional text before and after it
EmptyPairInputs ==
    {Input("emptypair",
           pre \o <<Std(<<"=">> \o inner, "delimiter")>> \o post, kind,
           ValueDoc, NoPartials, StdConfig, NoShape) :
        pre \in {<< >>, <<Txt(<<"H">>)>>},
        inner \in {<< >>, <<" ">>},
        post \in {<< >>, <<Txt(<<"x">>)>>},
        kind \in Kinds}

\* ---- family "indent": a partial tag alone on its line after 1..MaxIndent
\* spaces; the resolver's text for it is any text of up to MaxContent
\* characters and line terminators, or a comment line before a text
MaxIndent == 2
MaxContent == 3

CommentLine == OpenM \o <<"!", "c">> \o CloseM \o <<"\n", "x">>

IndentContents == SeqsUpTo({"x", "\n"}, MaxContent) \cup {CommentLine}

IndentInputs ==
    {Input("indent", <<Txt(Spaces(k)), Std(<<">", "p">>, "partial")>>, kind,
           ValueDoc, [name \in {<<"p">>} |-> content], StdConfig,
           [NoShape EXCEPT !.n = k, !.body = content]) :
        k \in 1..MaxIndent, content \in IndentContents, kind \in Kinds}

\* ---- family "custom": a section over f, rendered through a context of the
\* kind "custom"; f is null, false, true or a list of 1..MaxList elements.
\* The body holds the text b, the Value tag a and a set-delimiter tag with an
\* '=' in a marker; a set-delimiter tag may precede the section, the tags
\* after it being written in the other pair, and the Value tag a may follow it
FnValues ==
    {JNull, JBool(FALSE), JBool(TRUE)}
      \cup {JArray([i \in 1..n |-> JObject(<<Kid(<<"a">>, JString(<<"k">>))>>)]) :
               n \in 1..MaxList}

FnDoc(v) == JObject(<<Kid(FnKey, v), Kid(<<"a">>, JString(<<"j">>))>>)

FnTag(alt, inner, k, want) ==
    Piece((IF alt THEN AltOpenM ELSE OpenM) \o inner
            \o (IF alt THEN AltCloseM ELSE CloseM), k, want)

FnBodyPieces(alt) ==
    {Txt(<<"b">>), FnTag(alt, <<"a">>, "value", <<"j">>),
     FnTag(alt, <<"=", "x", "=", "y", "=">>, "delimiter", << >>)}

CustomOf(alt) ==
    {Input("custom",
           (IF alt THEN <<Std(<<"=", "<", "%", " ", "%", ">", "=">>, "delimiter")>>
            ELSE << >>)
             \o <<FnTag(alt, <<"#">> \o FnKey, "open", << >>)>> \o body
             \o <<FnTag(alt, <<"/">> \o FnKey, "close", << >>)>>
             \o (IF after THEN <<FnTag(alt, <<"a">>, "value", <<"j">>)>> ELSE << >>),
           "custom", FnDoc(v), NoPartials, StdConfig,
           [NoShape EXCEPT !.body = body, !.truthy = alt, !.doc = v,
                           !.n = IF after THEN 1 ELSE 0]) :
        after \in BOOLEAN, v \in FnValues,
        body \in SeqsUpTo(FnBodyPieces(alt), MaxBody)}

CustomInputs == CustomOf(FALSE) \cup CustomOf(TRUE)

\* ---- family "line": a comment tag between any two texts of up to MaxSide
\* characters, each a space, a line terminator or a letter
MaxSide == 2

LineInputs ==
    {Input("line",
           (IF lead = << >> THEN << >> ELSE <<Txt(lead)>>)
             \o <<Std(<<"!", "c">>, "comment")>>
             \o (IF trail = << >> THEN << >> ELSE <<Txt(trail)>>),
           "json", ValueDoc, NoPartials, StdConfig,
           [NoShape EXCEPT !.lead = lead, !.trail = trail]) :
        lead \in SeqsUpTo({" ", "\n", "H"}, MaxSide),
        trail \in SeqsUpTo({" ", "\n", "x"}, MaxSide)}

\* ---- family "dot": the section over a, a string or a number, with the
\* implicit iterator as its body, between two optional texts
DotValues == {JString(<<"J">>), JInt(1)}

DotInputs ==
    {Input("dot",
           pre \o <<Std(<<"#", "a">>, "open"), Std(<<".">>, "value"),
                    Std(<<"/", "a">>, "close")>> \o post,
           kind, JObject(<<Kid(<<"a">>, v)>>), NoPartials, StdConfig,
           [NoShape EXCEPT !.doc = v, !.pre = pre, !.post = post]) :
        pre \in {<< >>, <<Txt(<<"H">>)>>},
        post \in {<< >>, <<Txt(<<"x">>)>>},
        v \in DotValues, kind \in Kinds}

Inputs ==
    ValueInputs \cup SectionInputs \cup BothInputs \cup ErrorInputs
      \cup PartialInputs \cup StandaloneInputs \cup UnclosedInputs
      \cup NestedInputs \cup EscapeInputs \cup FunctionInputs
      \cup LookaheadInputs \cup RawInputs \cup EmptyPairInputs
      \cup IndentInputs \cup CustomInputs \cup LineInputs \cup DotInputs

\* the inputs of a further call on the same Renderer: the short templates of
\* the partial family, which has templates for either configured pair
AgainInputs == {inp \in PartialInputs : Len(inp.pieces) <= MaxAgain}

(***************************************************************************)
(* The specification                                                       *)
(***************************************************************************)

\* Renderer::Renderer()
Init ==
    /\ phase = "idle"
    /\ call = << >>
    /\ before = [errorPos |-> nullopt, markers |-> <<OpenM, CloseM>>]
    /\ stack = << >>
    /\ m_partialStack = << >>
    /\ m_error = ""
    /\ m_errorPos = nullopt
    /\ m_errorPartial = << >>
    /\ m_defaultTagStartMarker = OpenM
    /\ m_defaultTagEndMarker = CloseM
    /\ m_tagStartMarker = OpenM
    /\ m_tagEndMarker = CloseM
    /\ m_contextStack = << >>
    /\ result = << >>
    /\ scans = 0
    /\ errors = << >>

Configure == \E config \in {StdConfig, AltConfig} : setTagMarkers(config[1], config[2])

Call ==
    /\ phase = "idle"
    /\ \E inp \in Inputs : inp.config = defaults /\ Render(inp)

\* a further call of render on the same Renderer, after the last one returned
\* or threw
CallAgain ==
    /\ phase \in {"done", "threw"}
    /\ \E inp \in AgainInputs : inp.config = defaults /\ Render(inp)

Next ==
    \/ Configure
    \/ Call
    \/ CallAgain
    \/ StepNull
    \/ StepValue
    \/ StepSectionStart
    \/ StepPartial
    \/ StepSetDelimiter
    \/ StepComment
    \/ StepSectionEnd
    \/ MatchSkip
    \/ MatchNull
    \/ MatchMismatch
    \/ EnterList
    \/ EnterSection
    \/ EnterInverted
    \/ SkipBody
    \/ EnterEval
    \/ ReturnList
    \/ ReturnSection
    \/ ReturnInverted
    \/ ReturnEval
    \/ ReturnPartial
    \/ ReturnTop

Spec == Init /\ [][Next]_vars

(***************************************************************************)
(* escapeHtml and unescapeHtml on their own: a string is escaped, and the  *)
(* escaped string is unescaped.  The strings are made of up to MaxTokens   *)
(* tokens: the characters escapeHtml replaces, the entities unescapeHtml   *)
(* reads, and pieces of entities.                                          *)
(***************************************************************************)

MaxTokens == 3

RoundTripTokens ==
    {<<"&">>, <<"<">>, <<">">>, <<"\"">>, <<"a">>, <<";">>,
     <<"&", "l", "t", ";">>, <<"&", "g", "t", ";">>,
     <<"&", "q", "u", "o", "t", ";">>, <<"&", "a", "m", "p", ";">>,
     <<"a", "m", "p", ";">>, <<"l", "t", ";">>}

RoundTripStrings == {Concat(ts) : ts \in SeqsUpTo(RoundTripTokens, MaxTokens)}

RoundTripInit ==
    /\ phase = "idle"
    /\ call \in RoundTripStrings
    /\ before = [errorPos |-> nullopt, markers |-> <<OpenM, CloseM>>]
    /\ stack = << >>
    /\ m_partialStack = << >>
    /\ m_error = ""
    /\ m_errorPos = nullopt
    /\ m_errorPartial = << >>
    /\ m_defaultTagStartMarker = OpenM
    /\ m_defaultTagEndMarker = CloseM
    /\ m_tagStartMarker = OpenM
    /\ m_tagEndMarker = CloseM
    /\ m_contextStack = << >>
    /\ result = << >>
    /\ scans = 0
    /\ errors = << >>

\* result = escapeHtml(call)
ApplyEscape ==
    /\ phase = "idle"
    /\ result' = escapeHtml(call)
    /\ phase' = "escaped"
    /\ UNCHANGED <<call, before, stack, m_partialStack, errorState, markers,
                   defaults, m_contextStack, scans>>

\* result = unescapeHtml(result)
ApplyUnescape ==
    /\ phase = "escaped"
    /\ result' = unescapeHtml(result)
    /\ phase' = "unescaped"
    /\ UNCHANGED <<call, before, stack, m_partialStack, errorState, markers,
                   defaults, m_contextStack, scans>>

RoundTripNext == ApplyEscape \/ ApplyUnescape

RoundTripSpec == RoundTripInit /\ [][RoundTripNext]_vars

(***************************************************************************)
(* A context on its own: a PropertyTreeContext or a JsonContext is         *)
(* constructed on a document and then receives push and pop calls, with    *)
(* the keys and indexes a section may pass.  scans counts the calls.       *)
(***************************************************************************)

\* calls of push and pop on one context
MaxCalls == 4

ContextDocs ==
    {JObject(<<Kid(<<"a">>, JString(<<"1">>)),
               Kid(<<"x">>, JObject(<<Kid(<<"a">>, JString(<<"2">>)),
                                      Kid(<<"b">>, JString(<<"3">>)),
                                      Kid(<<"y">>, JObject(<<Kid(<<"b">>, JString(<<"4">>))>>))>>)),
               Kid(<<"l">>, JArray(<<JObject(<<Kid(<<"a">>, JString(<<"5">>))>>),
                                     JString(<<"6">>)>>))>>)}
    \cup {JObject(<<Kid(<<"a">>, v), Kid(<<"b">>, w)>>) :
             v \in XValues \cup {JNull}, w \in {JInt(0), JString(<<"0">>)}}

ContextKeys == {<<"a">>, <<"b">>, <<"x">>, <<"y">>, <<"l">>, <<"c">>, <<".">>}

ContextInit ==
    /\ phase = "context"
    /\ \E kind \in Kinds, doc \in ContextDocs :
          /\ call = Input("context", << >>, kind, doc, NoPartials, StdConfig,
                          [NoShape EXCEPT !.doc = doc])
          /\ m_contextStack = <<Root(kind, doc)>>
    /\ before = [errorPos |-> nullopt, markers |-> <<OpenM, CloseM>>]
    /\ stack = << >>
    /\ m_partialStack = << >>
    /\ m_error = ""
    /\ m_errorPos = nullopt
    /\ m_errorPartial = << >>
    /\ m_defaultTagStartMarker = OpenM
    /\ m_defaultTagEndMarker = CloseM
    /\ m_tagStartMarker = OpenM
    /\ m_tagEndMarker = CloseM
    /\ result = << >>
    /\ scans = 0
    /\ errors = << >>

\* Context::push(key, index); getValue(".") on a context without frames reads
\* back() of an empty vector, and that call is not followed
ContextPush ==
    /\ phase = "context"
    /\ scans < MaxCalls
    /\ \E key \in ContextKeys, index \in -1..MaxList :
          /\ m_contextStack # << >> \/ key # <<".">>
          /\ m_contextStack' = push(call.kind, m_contextStack, key, index)
    /\ scans' = scans + 1
    /\ UNCHANGED <<phase, call, before, stack, m_partialStack, errorState,
                   markers, defaults, result>>

\* Context::pop()
ContextPop ==
    /\ phase = "context"
    /\ scans < MaxCalls
    /\ m_contextStack' = pop(m_contextStack)
    /\ scans' = scans + 1
    /\ UNCHANGED <<phase, call, before, stack, m_partialStack, errorState,
                   markers, defaults, result>>

ContextNext == ContextPush \/ ContextPop

ContextSpec == ContextInit /\ [][ContextNext]_vars

\* a run never needs more calls of findTag than MaxScans allows, but for the
\* templates that set an empty marker pair, whose scan does not end
ScansSuffice == phase = "running" /\ call.fam # "emptypair" => scans < MaxScans

(***************************************************************************)
(* The properties                                                          *)
(***************************************************************************)

\* what the pieces of a template of Value tags and texts must render to
ValueWant(pieces) == Concat([k \in 1..Len(pieces) |-> pieces[k].want])

\* C1: a template of texts and well-formed Value tags renders to its texts,
\* unchanged and in order, with each tag replaced by the (escaped) string value
\* of its key, and no error.
ValuesInPlace ==
    phase = "done" /\ call.fam = "value" =>
        /\ result = ValueWant(call.pieces)
        /\ m_errorPos = nullopt

\* "H{{a}}H" has rendered to "HJH"
ValuesInPlaceSeen ==
    /\ phase = "done"
    /\ call.fam = "value"
    /\ Text(call.pieces) = <<"H">> \o OpenM \o <<"a">> \o CloseM \o <<"H">>
    /\ result = <<"H", "J", "H">>

\* one rendering of the body of the section family under element i of x
BodyWant(body, i) ==
    Concat([k \in 1..Len(body) |->
              IF body[k].k = "value" THEN FormatNat(i) ELSE body[k].txt])

SectionWant(shape) ==
    Text(shape.pre)
      \o Concat([i \in 1..shape.n |-> BodyWant(shape.body, i)])
      \o Text(shape.post)

\* C2: a section over a list of n > 0 elements renders its body n times,
\* iteration i under the scope pushed by (key, i) alone, the scope popped
\* again after it, and the output is the n renderings in index order.
ListRendersEachElement ==
    phase # "idle" /\ call.fam = "section" =>
        /\ phase = "done" =>
              /\ result = SectionWant(call.shape)
              /\ m_contextStack = <<call.root>>
        /\ phase = "running" /\ Len(stack) = 2 =>
              /\ caller.pc = "list"
              /\ caller.listCount = call.shape.n
              /\ caller.i < caller.listCount
              /\ m_contextStack = push(call.kind, <<call.root>>, <<"x">>, caller.i)
              /\ m_contextStack[2] =
                    IF call.kind = "ptree"
                    THEN Pt(<< >>, <<Kid(<<"a">>, Pt(FormatNat(caller.i + 1), << >>))>>)
                    ELSE JObject(<<Kid(<<"a">>, JInt(caller.i + 1))>>)

\* "H{{#x}}{{a}}-{{/x}}!" over two elements has rendered to "H1-2-!"
ListRendersEachElementSeen ==
    /\ phase = "done"
    /\ call.fam = "section"
    /\ call.shape.n = 2
    /\ call.kind = "ptree"
    /\ result = <<"H", "1", "-", "2", "-", "!">>

\* n times the text X
Xs(n) == [i \in 1..n |-> "X"]

\* C3: of {{#x}}X{{/x}} and {{^x}}X{{/x}} exactly one renders X (a list
\* section once per element), whatever the value of x and the context
\* class: the output of "{{#x}}X{{/x}}|{{^x}}X{{/x}}" is "|X", or X's and "|".
ExactlyOneSideRenders ==
    phase = "done" /\ call.fam = "both" =>
        result \in {<<"|", "X">>} \cup {Xs(n) \o <<"|">> : n \in 1..MaxList}

\* the lines a standalone template must render to
StandaloneWant(shape) ==
    <<"A", "\n">>
      \o (IF shape.truthy
          THEN Concat([j \in 1..Len(shape.inner) |->
                         IF shape.inner[j] = "B" THEN <<"B", "\n">> ELSE << >>])
          ELSE << >>)
      \o <<"C", "\n">>

\* C4: a structural tag alone on its line, apart from whitespace, leaves
\* nothing of its line in the output: the lines A, {{#x}}, ..., {{/x}}, C
\* render to A, the text lines between the section tags if x is true, and C.
StandaloneLinesVanish ==
    phase = "done" /\ call.fam = "standalone" =>
        result = StandaloneWant(call.shape)

\* ---- what the partial family must render to.  The top-level pieces are read
\* under the caller's pair cur, the partial's text under the configured pair.

\* the partial's text read from the configured pair: what it renders to, and
\* whether it raises an error (its end tag without a section)
PartialWant(config, text) ==
    CASE text[1] = "{" /\ config # StdConfig -> [out |-> text, err |-> FALSE]
      [] text[1] = "<" /\ config # AltConfig -> [out |-> text, err |-> FALSE]
      [] text[Len(text) - 1] = "a" -> [out |-> <<"J">>, err |-> FALSE]
      [] OTHER -> [out |-> << >>, err |-> TRUE]

\* a piece the pair cur does not open: its text, but for the "<% %>" inside
\* the set-delimiter tag, which the other pair reads as a tag of the empty key
Literal(piece) ==
    IF piece.k = "delimiter" THEN OpenM \o <<"=", "=">> \o CloseM ELSE piece.txt

RECURSIVE CallerWant(_, _, _, _, _, _)
CallerWant(pieces, k, cur, out, config, text) ==
    IF k > Len(pieces) THEN [out |-> out, cur |-> cur, err |-> FALSE]
    ELSE IF pieces[k].txt[1] # cur[1][1]
    THEN CallerWant(pieces, k + 1, cur, out \o Literal(pieces[k]), config, text)
    ELSE CASE pieces[k].k = "value" ->
                CallerWant(pieces, k + 1, cur, out \o <<"J">>, config, text)
           [] pieces[k].k = "delimiter" ->
                CallerWant(pieces, k + 1, AltConfig, out, config, text)
           [] pieces[k].k = "partial" ->
                IF PartialWant(config, text).err
                THEN [out |-> out, cur |-> cur, err |-> TRUE]
                ELSE CallerWant(pieces, k + 1, cur,
                                out \o PartialWant(config, text).out, config, text)

PartialFamilyWant ==
    CallerWant(call.pieces, 1, call.config, << >>, call.config,
               call.partials[<<"p">>])

\* C5: a partial's content is scanned from the configured default pair,
\* whatever pair the caller has active, and when the partial returns, with or
\* without an error, the caller's pair is the one it had before the partial
\* tag, whatever set-delimiter tags the partial read.
PartialIsolatesDelimiters ==
    phase # "idle" /\ call.fam = "partial" =>
        /\ phase = "done" =>
              /\ result = PartialFamilyWant.out
              /\ markers = PartialFamilyWant.cur
              /\ (m_errorPos # nullopt) = PartialFamilyWant.err
        /\ phase = "running" /\ Len(stack) = 2 /\ top.pc = "loop"
             /\ top.lastTagEnd = 0 =>
              markers = defaults

\* "{{=<% %>=}}<%>p%><%a%>" with the partial "{{=| |=}}|a|" has rendered
\* to "JJ": the partial was read with "{{ }}", the tag after it with "<% %>"
PartialIsolatesDelimitersSeen ==
    /\ phase = "done"
    /\ call.fam = "partial"
    /\ call.config = StdConfig
    /\ Len(call.pieces) = 3
    /\ call.pieces[1].k = "delimiter"
    /\ call.pieces[2] = Alt(<<">", "p">>, "partial")
    /\ call.pieces[3] = Alt(<<"a">>, "value")
    /\ call.partials[<<"p">>][4] = "|"
    /\ result = <<"J", "J">>
    /\ markers = AltConfig

\* the errors recorded so far that carry the message
Recorded(error) == {k \in 1..Len(errors) : errors[k].error = error}

\* C6: when the matcher's depth returns to 0 at a close tag of another key,
\* the error "Tag start/end key mismatch" is recorded at the start of that
\* close tag, the matcher returns no tag (the section is left without its
\* body being rendered), and no later error replaces the mismatch.
MismatchIsRecorded ==
    /\ [][Matching /\ Closing /\ look.tag.key # top.tag.key =>
            /\ m_error' = ErrMismatch
            /\ m_errorPos' = look.tag.start
            /\ stack' = SetTop([top EXCEPT !.pc = "loop"])]_vars
    /\ [](\A k \in Recorded(ErrMismatch) :
            /\ k = Len(errors)
            /\ m_error = ErrMismatch
            /\ m_errorPos = errors[k].pos)

\* the matcher has just left "{{#a}}{{/b}}x" with the mismatch at offset 6
MismatchIsRecordedSeen ==
    /\ phase = "running"
    /\ Text(call.pieces) = OpenM \o <<"#", "a">> \o CloseM
                             \o OpenM \o <<"/", "b">> \o CloseM \o <<"x">>
    /\ top.pc = "loop"
    /\ top.lastTagEnd = 0
    /\ m_error = ErrMismatch
    /\ m_errorPos = 6

\* the template "{{#a}}x{{/b}}", or the same with an inverted section
MismatchScenario ==
    /\ phase = "done"
    /\ call.fam = "error"
    /\ Len(call.pieces) = 3
    /\ call.pieces[1].k \in {"open", "inverted"}
    /\ call.pieces[2].k = "text"
    /\ call.pieces[3] = Std(<<"/", "b">>, "close")

\* C7 as the specification states it: "{{#a}}x{{/b}}" returns the output "x"
\* together with the key-mismatch error.
MismatchReturnsBody ==
    MismatchScenario => result = <<"x">> /\ m_error = "Tag start/end key mismatch"

\* C7: "{{#a}}x{{/b}}" returns the empty output together with the
\* key-mismatch error at the close tag, offset 7: the section's body is not
\* rendered, so its text before the close tag is not part of the output.
MismatchReturnsNothing ==
    MismatchScenario =>
        /\ result = << >>
        /\ m_error = "Tag start/end key mismatch"
        /\ m_errorPos = 7
        /\ Len(errors) = 1

\* "{{#a}}x{{/b}}" over a = "J" has returned
MismatchReturnsNothingSeen ==
    /\ MismatchScenario
    /\ call.pieces[1].k = "open"
    /\ call.kind = "json"
    /\ call.root = JObject(<<Kid(<<"a">>, JString(<<"J">>))>>)
    /\ result = << >>
    /\ m_errorPos = 7

\* C8 as the specification states it: once an error is recorded nothing more
\* is scanned: no call of findTag is made, no exception is thrown, and the
\* output of a frame grows by the output a nested call returns to it only.
ErrorStopsScanning ==
    [][phase = "running" /\ m_errorPos # nullopt =>
         /\ scans' = scans
         /\ phase' # "threw"
         /\ \A k \in 1..Len(stack') :
              stack'[k].output # stack[k].output =>
                  /\ k = Len(stack) - 1
                  /\ stack'[k].output = stack[k].output \o top.output]_vars

\* C9 as the specification states it: the first recorded error wins: once
\* set, the message, the position and the error partial are not replaced by
\* any later step of the same render.
FirstErrorWins ==
    [][phase = "running" /\ m_errorPos # nullopt =>
         UNCHANGED <<m_error, m_errorPos, m_errorPartial>>]_vars

\* a section, plain or inverted, is being matched and no tag is left
NoEndTag == Matching /\ look.tag.type = "Null"

NoEndMessage(tag) ==
    IF tag.type = "SectionStart" THEN "No matching end tag found for section"
    ELSE "No matching end tag found for inverted section"

\* C10 as the specification states it: if no close tag brings the matcher's
\* depth back to 0, the "no matching end tag" error of the section's kind is
\* recorded at the start of the open tag.
NoEndTagAlwaysRecorded ==
    [][NoEndTag =>
         /\ m_error' = NoEndMessage(top.tag)
         /\ m_errorPos' = top.tag.start]_vars

\* the pieces are texts around one open tag at j, nothing closing it
OnlyOpenAt(pieces, j) ==
    /\ pieces[j].k \in {"open", "inverted"}
    /\ \A i \in 1..Len(pieces) : i # j => pieces[i].k = "text"

\* C10: if no close tag brings the matcher's depth back to 0, the "no
\* matching end tag" error of the section's kind is recorded at the start of
\* the open tag, unless the look-ahead has recorded an error already, which
\* is then kept; either way nothing is emitted for the section and the render
\* stops, returning the text emitted before the open tag.
NoEndTagRecorded ==
    /\ [][NoEndTag =>
            /\ IF m_errorPos = nullopt
               THEN /\ m_error' = NoEndMessage(top.tag)
                    /\ m_errorPos' = top.tag.start
               ELSE UNCHANGED <<m_error, m_errorPos, m_errorPartial>>
            /\ stack' = SetTop([top EXCEPT !.pc = "loop"])]_vars
    /\ [](phase = "done" /\ call.fam = "error" =>
            \A j \in 1..Len(call.pieces) :
                OnlyOpenAt(call.pieces, j) =>
                    /\ result = Text(SubSeq(call.pieces, 1, j - 1))
                    /\ m_error = NoEndMessage([type |->
                                     IF call.pieces[j].k = "open"
                                     THEN "SectionStart"
                                     ELSE "InvertedSectionStart"])
                    /\ m_errorPos = Len(result))

\* "x{{^a}}x" has returned "x" with the inverted section's error at offset 1
NoEndTagRecordedSeen ==
    /\ phase = "done"
    /\ call.fam = "error"
    /\ Len(call.pieces) = 3
    /\ OnlyOpenAt(call.pieces, 2)
    /\ call.pieces[2].k = "inverted"
    /\ result = <<"x">>
    /\ m_error = "No matching end tag found for inverted section"
    /\ m_errorPos = 1

\* C11: a start marker that no end marker follows is not an error: findTag
\* reports no tag, what is left of the span, the start marker included, is
\* copied to the output, and after render the error is empty and the error
\* position absent.
UnclosedMarkerIsText ==
    /\ [][Scanning /\ call.fam = "unclosed"
            /\ top.lastTagEnd = Len(Text(SubSeq(call.pieces, 1,
                                                Len(call.pieces) - 1))) =>
            /\ scan.tag.type = "Null"
            /\ stack' = SetTop([top EXCEPT
                   !.output = @ \o call.pieces[Len(call.pieces)].txt,
                   !.pc = "ret"])]_vars
    /\ [][phase' = "done" /\ call.fam = "unclosed" =>
            /\ result' = ValueWant(call.pieces)
            /\ m_error' = ""
            /\ m_errorPos' = nullopt]_vars

\* "H{{a}}{{a}" has rendered to "HJ{{a}"
UnclosedMarkerIsTextSeen ==
    /\ phase = "done"
    /\ call.fam = "unclosed"
    /\ result = <<"H", "J">> \o OpenM \o <<"a", "}">>
    /\ m_error = ""
    /\ m_errorPos = nullopt

\* whether the text of a nested partial raises an error
Raises(text) == text # <<"z">>

\* the partial the first error of a nested template belongs to: none (the
\* empty name) for an error of the template itself or for no error at all
RECURSIVE NestedWant(_, _, _, _)
NestedWant(pieces, k, tail, inner) ==
    IF k > Len(pieces) THEN << >>
    ELSE CASE pieces[k].k = "close" -> << >>
           [] pieces[k] = Std(<<">", "q">>, "partial") /\ Raises(inner) -> <<"q">>
           [] pieces[k] = Std(<<">", "p">>, "partial") /\ Raises(inner) -> <<"q">>
           [] pieces[k] = Std(<<">", "p">>, "partial") /\ Raises(tail) -> <<"p">>
           [] OTHER -> NestedWant(pieces, k + 1, tail, inner)

\* C12: when an error is recorded the error partial is the key of the
\* innermost partial being expanded at that moment, and it is empty when the
\* error is raised outside every partial, also after earlier partials of the
\* same render have returned.
ErrorPartialIsInnermost ==
    /\ [][Len(errors') > Len(errors) =>
            m_errorPartial' = IF m_partialStack # << >>
                              THEN m_partialStack[Len(m_partialStack)]
                              ELSE << >>]_vars
    /\ [][phase' = "done" /\ call.fam = "nested" =>
            m_errorPartial' =
                NestedWant(call.pieces, 1,
                           SubSeq(call.partials[<<"p">>], 7,
                                  Len(call.partials[<<"p">>])),
                           call.partials[<<"q">>])]_vars

\* "{{>p}}" has ended with an error of q, which p was expanding
ErrorPartialIsInnermostSeen ==
    /\ phase = "done"
    /\ call.fam = "nested"
    /\ Len(call.pieces) = 1
    /\ call.pieces[1] = Std(<<">", "p">>, "partial")
    /\ m_errorPos # nullopt
    /\ m_errorPartial = <<"q">>

\* "{{>q}}{{/a}}" has ended with an error of the template, after q returned
ErrorOutsidePartialSeen ==
    /\ phase = "done"
    /\ call.fam = "nested"
    /\ Len(call.pieces) = 2
    /\ call.pieces[1] = Std(<<">", "q">>, "partial")
    /\ call.pieces[2].k = "close"
    /\ m_error = "Unexpected end tag"
    /\ m_errorPartial = << >>


\* C13: every call of the public render starts clean: the error text is
\* empty, the error position absent, the error partial empty and the active
\* markers are the configured default pair, whatever errors or Set Delimiter
\* tags the call before it left behind.
EveryCallStartsClean ==
    [][phase # "running" /\ phase' = "running" =>
         /\ m_error' = ""
         /\ m_errorPos' = nullopt
         /\ m_errorPartial' = << >>
         /\ m_tagStartMarker' = m_defaultTagStartMarker
         /\ m_tagEndMarker' = m_defaultTagEndMarker
         /\ UNCHANGED defaults]_vars

\* a call has started clean on a Renderer whose last call ended with an error
\* recorded and with markers other than the configured pair in force
EveryCallStartsCleanSeen ==
    /\ phase = "running"
    /\ before.errorPos # nullopt
    /\ before.markers # defaults
    /\ m_error = ""
    /\ m_errorPos = nullopt
    /\ m_errorPartial = << >>
    /\ markers = defaults
    /\ scans = 0


\* the text with each of & < > " replaced by its entity
RECURSIVE Encoded(_)
Encoded(s) ==
    IF s = << >> THEN << >>
    ELSE (CASE Head(s) = "&" -> <<"&", "a", "m", "p", ";">>
            [] Head(s) = "<" -> <<"&", "l", "t", ";">>
            [] Head(s) = ">" -> <<"&", "g", "t", ";">>
            [] Head(s) = "\"" -> <<"&", "q", "u", "o", "t", ";">>
            [] OTHER -> <<Head(s)>>) \o Encoded(Tail(s))

StartsWith(s, p) == Len(p) <= Len(s) /\ SubSeq(s, 1, Len(p)) = p

Drop(s, n) == SubSeq(s, n + 1, Len(s))

\* the text with each of the four entities read left to right and decoded once
RECURSIVE Decoded(_)
Decoded(s) ==
    IF s = << >> THEN << >>
    ELSE IF StartsWith(s, <<"&", "a", "m", "p", ";">>)
         THEN <<"&">> \o Decoded(Drop(s, 5))
    ELSE IF StartsWith(s, <<"&", "l", "t", ";">>)
         THEN <<"<">> \o Decoded(Drop(s, 4))
    ELSE IF StartsWith(s, <<"&", "g", "t", ";">>)
         THEN <<">">> \o Decoded(Drop(s, 4))
    ELSE IF StartsWith(s, <<"&", "q", "u", "o", "t", ";">>)
         THEN <<"\"">> \o Decoded(Drop(s, 6))
    ELSE <<Head(s)>> \o Decoded(Tail(s))

\* C14: the output of a Value tag depends on its escape mode: {{v}} emits the
\* string value of v with & < > " replaced by their entities, {{{v}}} emits it
\* unchanged and {{&v}} emits it with the four entities decoded; the three
\* forms read the same key.
EscapeModes ==
    /\ [][Scanning /\ scan.tag.type = "Value" /\ call.fam = "escape" =>
            /\ scan.tag.key = <<"v">>
            /\ scan.tag.escapeMode =
                 (CASE top.lastTagEnd = 0 -> "Escape"
                    [] top.lastTagEnd = 5 -> "Raw"
                    [] OTHER -> "Unescape")]_vars
    /\ [][phase' = "done" /\ call.fam = "escape" =>
            /\ result' = Encoded(call.shape.inner) \o call.shape.inner
                           \o Decoded(call.shape.inner)
            /\ m_errorPos' = nullopt]_vars

\* "{{v}}{{{v}}}{{&v}}" over v = "&amp;lt;" has rendered "&amp;amp;lt;",
\* "&amp;lt;" and "&lt;"
EscapeModesSeen ==
    /\ phase = "done"
    /\ call.fam = "escape"
    /\ call.shape.inner = <<"&", "a", "m", "p", ";", "l", "t", ";">>
    /\ result = <<"&", "a", "m", "p", ";", "a", "m", "p", ";", "l", "t", ";">>
                  \o <<"&", "a", "m", "p", ";", "l", "t", ";">>
                  \o <<"&", "l", "t", ";">>


\* C15: unescapeHtml(escapeHtml(s)) = s for every string s, also for strings
\* that already hold entity-like text such as "&lt;" or "&amp;".
EscapeRoundTrip ==
    /\ phase = "escaped" => result = Encoded(call)
    /\ phase = "unescaped" => result = call

\* "&amp;lt;" has been escaped to "&amp;amp;lt;" and unescaped to itself
EscapeRoundTripSeen ==
    /\ phase = "unescaped"
    /\ call = <<"&", "a", "m", "p", ";", "l", "t", ";">>
    /\ result = call


\* C16: a function registered for a key through registerFunction is invoked
\* for every section with that key rendered through render(template, data),
\* for both data sources, and the section's output is the function's result
\* on the inner text: "Hello {{#UPPER}}{{name}}{{/UPPER}}!" with name = John
\* renders "Hello JOHN!".
RegisteredFunctionRenders ==
    /\ [][Matching /\ Closing /\ look.tag.key = top.tag.key
            /\ top.tag.key \in call.shape.registered =>
                canEval(call.kind, top.tag.key)]_vars
    /\ [][phase' = "done" /\ call.fam = "function" =>
            result' = <<"H", "e", "l", "l", "o", " ", "J", "O", "H", "N", "!">>]_vars

\* what the code renders the template of the test CustomRendereFunc to
FunctionSectionDropped ==
    /\ phase = "done"
    /\ call.fam = "function"
    /\ result = <<"H", "e", "l", "l", "o", " ", "!">>


\* the named members of a frame
Members(kind, frame) ==
    IF kind = "ptree" THEN frame.kids
    ELSE IF frame.t = "object" THEN frame.o ELSE << >>

\* the member called key of a frame that has one
MemberOf(kind, frame, key) ==
    LET ms == Members(kind, frame)
    IN ms[CHOOSE j \in 1..Len(ms) :
            ms[j].k = key /\ \A h \in 1..(j - 1) : ms[h].k # key].v

\* the frames that define key
Defining(kind, frames, key) ==
    {i \in 1..Len(frames) :
        \E j \in 1..Len(Members(kind, frames[i])) :
            Members(kind, frames[i])[j].k = key}

\* what a key resolves to: the value a context's getValue returns
Lookup(kind, frames, key) ==
    IF kind = "ptree" THEN PtreeGetValue(frames, key)
    ELSE JsonGetValue(frames, key)

\* C17: a key resolves to its value in the innermost frame that defines it,
\* so an inner frame shadows an outer one and a key the inner frames lack
\* resolves from an enclosing frame (or to nothing when no frame defines
\* it); the key "." resolves to the top frame itself.
InnermostScopeWins ==
    phase = "context" /\ m_contextStack # << >> =>
        \A key \in ContextKeys :
            LET in == Defining(call.kind, m_contextStack, key)
            IN Lookup(call.kind, m_contextStack, key) =
                 IF key = <<".">> THEN m_contextStack[Len(m_contextStack)]
                 ELSE IF in = {}
                 THEN (IF call.kind = "ptree" THEN PtEmpty ELSE JNull)
                 ELSE MemberOf(call.kind,
                               m_contextStack[CHOOSE i \in in : \A j \in in : j <= i],
                               key)

\* after push("x") and push("y") on the nested document: a, which the root
\* and x define and y lacks, resolves to x's "2", and b, which x and y define,
\* to y's "4"
InnermostScopeWinsSeen ==
    /\ phase = "context"
    /\ Len(m_contextStack) = 3
    /\ Defining(call.kind, m_contextStack, <<"a">>) = {1, 2}
    /\ Defining(call.kind, m_contextStack, <<"b">>) = {2, 3}
    /\ stringValue(call.kind, m_contextStack, <<"a">>) = <<"2">>
    /\ stringValue(call.kind, m_contextStack, <<"b">>) = <<"4">>
    /\ call.kind = "ptree"


\* the value of a key in the document a context was constructed on
InDocument(doc, key) ==
    IF Defining("json", <<doc>>, key) = {} THEN JNull
    ELSE MemberOf("json", doc, key)

\* boolean false, unresolved or null, the empty string, or "false" in any case
FalseValue(v) ==
    \/ v.t = "bool" /\ ~v.b
    \/ v.t = "null"
    \/ v.t = "string" /\ (v.s = << >> \/ Lower(v.s) = <<"f", "a", "l", "s", "e">>)

\* C18: for both contexts isFalse(key) is true exactly when the resolved
\* value is boolean false, unresolved or null, the empty string or a string
\* equal to "false" ignoring case; it is false for every other value, in
\* particular for 0 and for a non-empty object or array.
FalseExactly ==
    phase = "context" /\ m_contextStack = <<call.root>> =>
        \A key \in ContextKeys \ {<<".">>} :
            isFalse(call.kind, m_contextStack, key)
              <=> FalseValue(InDocument(call.shape.doc, key))

\* C18 for the JSON context alone, where it holds
JsonFalseExactly ==
    phase = "context" /\ m_contextStack = <<call.root>> /\ call.kind = "json" =>
        \A key \in ContextKeys \ {<<".">>} :
            isFalse(call.kind, m_contextStack, key)
              <=> FalseValue(InDocument(call.shape.doc, key))

\* the property tree context holds isFalse("b") of {b: 0}
ZeroIsFalse ==
    /\ phase = "context"
    /\ call.kind = "ptree"
    /\ m_contextStack = <<call.root>>
    /\ InDocument(call.shape.doc, <<"b">>) = JInt(0)
    /\ isFalse(call.kind, m_contextStack, <<"b">>)

\* the property tree context holds isFalse("x") of {x: {a: .., b: .., y: ..}}
ObjectIsFalse ==
    /\ phase = "context"
    /\ call.kind = "ptree"
    /\ m_contextStack = <<call.root>>
    /\ InDocument(call.shape.doc, <<"x">>).t = "object"
    /\ isFalse(call.kind, m_contextStack, <<"x">>)


\* the number of elements of a sequence, 0 for every other value
ElementCount(v) == IF v.t = "array" THEN Len(v.a) ELSE 0

\* C19: listCount(key) is the number of elements when the resolved value is
\* a sequence and 0 for every other value (scalar, object with named
\* members, unresolved key).
ListCountOnlyForSequences ==
    phase = "context" /\ m_contextStack = <<call.root>> =>
        \A key \in ContextKeys \ {<<".">>} :
            listCount(call.kind, m_contextStack, key)
              = ElementCount(InDocument(call.shape.doc, key))

\* the property tree context counts the three members of the object x
ObjectCountsMembers ==
    /\ phase = "context"
    /\ call.kind = "ptree"
    /\ m_contextStack = <<call.root>>
    /\ InDocument(call.shape.doc, <<"x">>).t = "object"
    /\ listCount(call.kind, m_contextStack, <<"x">>) = 3


\* C20: pop() never removes the last remaining frame: on a context whose
\* stack holds exactly one frame it leaves the stack unchanged, so after any
\* sequence of push and pop calls the stack holds at least one frame.
RootFrameStays ==
    [][phase = "context" /\ Len(m_contextStack) = 1 =>
         Len(m_contextStack') >= 1]_vars

\* pop() on a context just constructed has left it without a frame
RootFramePopped ==
    /\ phase = "context"
    /\ scans = 1
    /\ m_contextStack = << >>

\* within a render every pop answers a push of the same section or list
\* element, and the root frame stays
RenderKeepsRootFrame ==
    phase = "running" => m_contextStack # << >> /\ m_contextStack[1] = call.root


\* the characters of a text
Chars(text) == {text[i] : i \in 1..Len(text)}

\* C21: a well-formed SetDelimiter tag never contributes any of its own text
\* to the output, wherever it appears (top level, the body of a rendered
\* section, a partial); it only replaces the active pair.  No text and no
\* value of these families holds "=", "<" or "%".
SetDelimiterEmitsNothing ==
    phase = "done" /\ call.fam = "lookahead" =>
        Chars(result) \cap {"=", "<", "%"} = {}

\* "{{#a}}{{=<% %>=}}<%/a%>" has rendered "{{==}}": the body is scanned with
\* <% %> in force, and the "<% %>" inside the tag is read as a Value tag
SetDelimiterEmitted ==
    /\ phase = "done"
    /\ call.fam = "lookahead"
    /\ call.shape.pre = << >>
    /\ call.shape.post = << >>
    /\ result = OpenM \o <<"=", "=">> \o CloseM

\* C23: the pair used to recognise a tag is the pair in force at the tag's
\* position in document order: the look-ahead for a section's close tag does
\* not change how the tags of the body that precede a SetDelimiter tag are
\* recognised when the body is rendered.
DocumentOrderDelimiters ==
    /\ [][Scanning /\ call.fam = "lookahead" /\ Len(stack) = 2
            /\ top.lastTagEnd = 6
            /\ call.shape.pre # << >> /\ call.shape.pre[1].k = "value" =>
                /\ scan.tag.type = "Value"
                /\ scan.tag.start = 6
                /\ scan.tag.key = <<"b">>]_vars
    /\ [][phase' = "done" /\ call.fam = "lookahead" =>
            result' = ValueWant(call.pieces)]_vars

\* the body of "{{#a}}{{b}}{{=<% %>=}}<%/a%>" is scanned with <% %> in force:
\* the first tag found is the "<% %>" inside the set-delimiter tag, not {{b}}
BodyScannedWithLaterPair ==
    /\ Scanning
    /\ call.fam = "lookahead"
    /\ Len(stack) = 2
    /\ top.lastTagEnd = 6
    /\ call.shape.pre = <<Piece(OpenM \o <<"b">> \o CloseM, "value", <<"J">>)>>
    /\ markers = AltConfig
    /\ scan.tag.type = "Value"
    /\ scan.tag.start = 14


\* C22: every tag findTag returns for a text of length n has
\* start <= end <= n, also after the end adjustment of a raw tag and after
\* widening, so the cursor of render never moves past the end of its text.
TagWithinText ==
    /\ Scanning /\ scan.tag.type # "Null" =>
           scan.tag.start <= scan.tag.end /\ scan.tag.end <= Len(top.text)
    /\ Matching /\ look.tag.type # "Null" =>
           look.tag.start <= look.tag.end /\ look.tag.end <= Len(top.text)
    /\ phase = "running" =>
           \A k \in 1..Len(stack) : stack[k].lastTagEnd <= Len(stack[k].text)

\* "H{{{b}}": findTag has returned a tag that ends at 8 in a text of length 7,
\* and the substr of the next pass has thrown std::out_of_range
CursorPastTheEnd ==
    /\ phase = "threw"
    /\ call.fam = "raw"
    /\ Text(call.pieces) = <<"H">> \o OpenM \o <<"{", "b", "}", "}">>


\* C24: render of a template without partial tags terminates: each pass of
\* the scan loop either ends the loop or moves the cursor (lastTagEnd)
\* strictly forward, for every pair a SetDelimiter tag can establish.
ScanLoopAdvances ==
    [][/\ Scanning
       /\ call.partials = NoPartials
       /\ phase' = "running"
       /\ Len(stack') = Len(stack)
       /\ stack'[Len(stack')].pc = "loop"
       /\ m_errorPos' = nullopt
       => stack'[Len(stack')].lastTagEnd > top.lastTagEnd]_vars

\* "{{=}}x": with both markers empty findTag has returned, MaxScans - 1 times
\* over, an empty Value tag at offset 5, and the cursor is still at 5
ScanLoopStuck ==
    /\ phase = "running"
    /\ call.fam = "emptypair"
    /\ Text(call.pieces) = OpenM \o <<"=">> \o CloseM \o <<"x">>
    /\ scans = MaxScans
    /\ top.lastTagEnd = 5
    /\ markers = <<<< >>, << >>>>
    /\ m_errorPos = nullopt


\* C25: every push the renderer issues is answered by exactly one pop before
\* the step that issued it ends, after an error as well: while render runs
\* the scope stack holds the root frame and one frame per section or list
\* iteration whose body is being rendered, and when render returns it holds
\* exactly the frame it held when render was called.
PushesArePopped ==
    /\ phase = "running" =>
          /\ Len(m_contextStack) =
                 1 + Cardinality({k \in 1..(Len(stack) - 1) :
                                     stack[k].pc \in {"list", "section"}})
          /\ m_contextStack[1] = call.root
    /\ phase = "done" => m_contextStack = <<call.root>>

\* "{{#a}}{{=x=y=}}{{/a}}" over a list a: the look-ahead for the close tag has
\* raised the delimiter error, every element has still been pushed and
\* popped, and render has returned with the root frame alone
PushesArePoppedSeen ==
    /\ phase = "done"
    /\ call.fam = "error"
    /\ Text(call.pieces) = OpenM \o <<"#", "a">> \o CloseM
                             \o OpenM \o <<"=", "x", "=", "y", "=">> \o CloseM
                             \o OpenM \o <<"/", "a">> \o CloseM
    /\ listCount(call.kind, <<call.root>>, <<"a">>) > 0
    /\ m_errorPos = 10
    /\ m_contextStack = <<call.root>>


\* the text with k spaces before its first character and after every line
\* terminator that a character follows
EveryLineIndented(text, k) ==
    Concat([i \in 1..Len(text) |->
               (IF i = 1 \/ text[i - 1] = "\n" THEN Spaces(k) ELSE << >>)
                 \o <<text[i]>>])

\* C26: for a partial tag with indentation k > 0 the content that is rendered
\* is the fetched text with exactly k spaces at the start of every line: once
\* before the first character, once after every line terminator that a
\* character follows, none after a terminator that ends the content.  For a
\* content without tags the output is that content.
PartialLinesIndented ==
    phase = "done" /\ call.fam = "indent" /\ call.shape.body # CommentLine =>
        result = EveryLineIndented(call.shape.body, call.shape.n)

\* "  {{>p}}" with an empty text for p: two spaces are the output, of a
\* content that has no line
IndentOfNothing ==
    /\ phase = "done"
    /\ call.fam = "indent"
    /\ call.shape.body = << >>
    /\ call.shape.n = 2
    /\ result = Spaces(2)

\* "  {{>p}}" with "{{!c}}\nx" for p: the spaces of the first line are not
\* part of the content that is rendered, so the comment line, removed whole,
\* leaves them behind and the output is four spaces and x
IndentBeforeCommentLine ==
    /\ phase = "done"
    /\ call.fam = "indent"
    /\ call.shape.body = CommentLine
    /\ call.shape.n = 2
    /\ result = Spaces(4) \o <<"x">>

\* every content that has a character and no tag is rendered as the claim says
IndentedWhenNotEmpty ==
    phase = "done" /\ call.fam = "indent"
      /\ call.shape.body \notin {<< >>, CommentLine} =>
        result = EveryLineIndented(call.shape.body, call.shape.n)


\* a section over FnKey through a context that evaluates it has found its
\* close tag
EvalSectionMatched ==
    /\ Matched
    /\ top.tag.type = "SectionStart"
    /\ call.fam = "custom"
    /\ top.tag.key = FnKey

\* eval is called with the unrendered inner text, and no scope is pushed
EvalCalled ==
    /\ Len(stack') = Len(stack) + 1
    /\ stack'[Len(stack)].pc = "eval"
    /\ stack'[Len(stack')].text = Text(call.shape.body)
    /\ stack'[Len(stack')].lastTagEnd = 0
    /\ m_contextStack' = m_contextStack

\* the result of eval is appended, the section is over, no scope is popped
EvalAppended ==
    /\ Len(stack') = Len(stack) - 1
    /\ stack'[Len(stack')].output = caller.output \o transform(top.output)
    /\ stack'[Len(stack')].lastTagEnd = caller.endTag.end
    /\ stack'[Len(stack')].pc = "loop"
    /\ m_contextStack' = m_contextStack

\* C27 as stated: whenever canEval(key) is true for a section's key, the
\* renderer neither iterates the section nor pushes or pops a scope: it calls
\* eval exactly once with the unrendered inner text of the section and
\* appends the result, whatever listCount(key) and isFalse(key) return.
EvalWhateverListCount ==
    /\ [][EvalSectionMatched => EvalCalled]_vars
    /\ [][Nested /\ caller.pc = "eval" => EvalAppended]_vars

\* C27: whenever canEval(key) is true for a section's key and listCount(key)
\* is 0, the renderer neither iterates the section nor pushes or pops a
\* scope: it calls eval exactly once with the unrendered inner text of the
\* section and appends the result, whatever isFalse(key) returns; when
\* listCount(key) is not 0 the section is iterated as a list and eval is not
\* called.
EvalUnlessList ==
    /\ [][EvalSectionMatched =>
            IF listCount(call.kind, m_contextStack, FnKey) = 0
            THEN EvalCalled
            ELSE /\ stack'[Len(stack)].pc = "list"
                 /\ Len(m_contextStack') = Len(m_contextStack) + 1]_vars
    /\ [][Nested /\ caller.pc = "eval" => EvalAppended]_vars

\* "{{#f}}b{{a}}{{/f}}" with f false and a = "j": eval has been given the
\* inner text and its result "BJ" is the output
EvalUnlessListSeen ==
    /\ phase = "done"
    /\ call.fam = "custom"
    /\ call.shape.doc = JBool(FALSE)
    /\ Text(call.pieces) = OpenM \o <<"#", "f">> \o CloseM \o <<"b">>
                             \o OpenM \o <<"a">> \o CloseM
                             \o OpenM \o <<"/", "f">> \o CloseM
    /\ isFalse(call.kind, m_contextStack, FnKey)
    /\ result = <<"B", "J">>

\* the same template with f a list of two elements {a: "k"}: the body has been
\* rendered once per element, and eval has not been called
EvalNotCalledForList ==
    /\ phase = "done"
    /\ call.fam = "custom"
    /\ call.shape.doc.t = "array"
    /\ Text(call.pieces) = OpenM \o <<"#", "f">> \o CloseM \o <<"b">>
                             \o OpenM \o <<"a">> \o CloseM
                             \o OpenM \o <<"/", "f">> \o CloseM
    /\ result = <<"b", "k", "b", "k">>


\* what follows the last line terminator of a text
LastLine(text) ==
    LET ends == {i \in 1..Len(text) : text[i] = "\n"}
        from == IF ends = {} THEN 0 ELSE CHOOSE i \in ends : \A j \in ends : j <= i
    IN SubSeq(text, from + 1, Len(text))

\* a text up to and with its first line terminator, all of it when it has none
FirstLine(text) ==
    LET ends == {i \in 1..Len(text) : text[i] = "\n"}
        to == IF ends = {} THEN Len(text) ELSE CHOOSE i \in ends : \A j \in ends : i <= j
    IN SubSeq(text, 1, to)

Blank(text) == \A i \in 1..Len(text) : isspace(text[i])

\* the comment tag of the family "line" as findTag returns it, when its start
\* is widened (back) and when its end is (fwd), and the output of the template
LineTagIs(back, fwd) ==
    LET lead == call.shape.lead
        trail == call.shape.trail
    IN /\ phase = "running" /\ Len(stack) = 1 /\ top.pc = "loop"
           /\ top.lastTagEnd = 0 /\ scans = 0 =>
            /\ scan.tag.type = "Comment"
            /\ scan.tag.start =
                   Len(lead) - (IF back THEN Len(LastLine(lead)) ELSE 0)
            /\ scan.tag.indentation = IF back THEN Len(LastLine(lead)) ELSE 0
            /\ scan.tag.end =
                   Len(lead) + 6 + (IF fwd THEN Len(FirstLine(trail)) ELSE 0)
       /\ phase = "done" =>
            result = SubSeq(lead, 1, Len(lead)
                                       - (IF back THEN Len(LastLine(lead)) ELSE 0))
                       \o SubSeq(trail,
                                 1 + (IF fwd THEN Len(FirstLine(trail)) ELSE 0),
                                 Len(trail))

\* C28 as stated: standalone-line widening of a non-Value tag decides each
\* side on its own: the start is extended to the preceding line start, with
\* the indentation the whitespace skipped, whenever only whitespace lies
\* between that line start and the tag, and the end is extended past the next
\* line terminator whenever only whitespace lies before it, independently of
\* what the other side contains.
EachSideOnItsOwn ==
    phase \in {"running", "done"} /\ call.fam = "line" =>
        LineTagIs(Blank(LastLine(call.shape.lead)),
                  Blank(FirstLine(call.shape.trail)))

\* C28: standalone-line widening of a non-Value tag widens both sides or
\* neither: when only whitespace lies between the preceding line start and
\* the tag and only whitespace lies between the tag and the next line
\* terminator (or the end of the text), the start is extended to the line
\* start, with the indentation the whitespace skipped, and the end past the
\* terminator; otherwise the tag is left as it is on both sides.
WidensBothOrNeither ==
    phase \in {"running", "done"} /\ call.fam = "line" =>
        LET both == /\ Blank(LastLine(call.shape.lead))
                    /\ Blank(FirstLine(call.shape.trail))
        IN LineTagIs(both, both)

\* "\n {{!c}} \n": the comment's line is blank on both sides, the tag has been
\* widened over it and the output is the first line terminator alone
WidensBothOrNeitherSeen ==
    /\ phase = "done"
    /\ call.fam = "line"
    /\ call.shape.lead = <<"\n", " ">>
    /\ call.shape.trail = <<" ", "\n">>
    /\ result = <<"\n">>

\* " {{!c}}x": only whitespace precedes the tag on its line, a letter follows
\* it, and the space before the tag is part of the output
BlankSideKept ==
    /\ phase = "done"
    /\ call.fam = "line"
    /\ call.shape.lead = <<" ">>
    /\ call.shape.trail = <<"x">>
    /\ result = <<" ", "x">>


\* C29: push(key) without an index, on a key that resolves to a non-null
\* value, pushes that value itself as the new top frame, so inside a truthy
\* non-list section {{#key}}{{.}}{{/key}} renders the string value of key,
\* with the same result for the property-tree and the JSON context.
SectionFrameIsTheValue ==
    /\ phase = "running" /\ call.fam = "dot" /\ Len(m_contextStack) = 2 =>
           m_contextStack[2] = Root(call.kind, call.shape.doc)
    /\ phase = "done" /\ call.fam = "dot" =>
           result = Text(call.shape.pre)
                      \o (IF call.shape.doc.t = "string" THEN <<"J">> ELSE <<"1">>)
                      \o Text(call.shape.post)

\* "{{#a}}{{.}}{{/a}}" with a = "J" through the property-tree context: the
\* section has pushed an empty tree and the output is empty
LeafPushedEmpty ==
    /\ phase = "done"
    /\ call.fam = "dot"
    /\ call.kind = "ptree"
    /\ call.shape.doc = JString(<<"J">>)
    /\ Len(call.pieces) = 3
    /\ result = << >>

\* the same template and data through the JSON context render "J"
JsonDotRendersValue ==
    /\ phase = "done"
    /\ call.fam = "dot"
    /\ call.kind = "json"
    /\ call.shape.doc = JString(<<"J">>)
    /\ Len(call.pieces) = 3
    /\ result = <<"J">>


\* C30: a call of the public render made from inside a custom section
\* function (eval) while an outer render is in progress leaves the outer
\* render's state unchanged once the inner call returns: the active pair is
\* the one in force before the section, and an error recorded by the outer
\* render is neither cleared nor replaced.
EvalLeavesOuterState ==
    [][Nested /\ caller.pc = "eval" =>
         /\ markers' = before.markers
         /\ before.errorPos # nullopt => m_errorPos' = before.errorPos]_vars

\* "{{=<% %>=}}<%#f%>b<%/f%><%a%>": the render called by eval has put the
\* default pair back in force, and the Value tag after the section, written
\* in the pair the template had set, is in the output as text
OuterPairLost ==
    /\ phase = "done"
    /\ call.fam = "custom"
    /\ call.shape.truthy
    /\ call.shape.doc = JBool(TRUE)
    /\ call.shape.body = <<Txt(<<"b">>)>>
    /\ call.shape.n = 1
    /\ before.markers = AltConfig
    /\ markers = StdConfig
    /\ result = <<"B">> \o AltOpenM \o <<"a">> \o AltCloseM

\* "{{=<% %>=}}<%#f%><%=x=y=%><%/f%>": the look-ahead for the close tag has
\* recorded the delimiter error at offset 21, the render called by eval has
\* cleared it, and the outer render has returned without an error
OuterErrorCleared ==
    /\ phase = "done"
    /\ call.fam = "custom"
    /\ call.shape.truthy
    /\ call.shape.doc = JBool(TRUE)
    /\ Len(call.shape.body) = 1
    /\ call.shape.n = 0
    /\ errors # << >>
    /\ before.errorPos # nullopt
    /\ m_errorPos = nullopt
    /\ m_error = ""

\* "{{#f}}{{=x=y=}}{{/f}}": the error the look-ahead recorded at offset 10 has
\* been replaced by the error of the render called by eval, at offset 4 of
\* the inner text
OuterErrorReplaced ==
    /\ phase = "done"
    /\ call.fam = "custom"
    /\ ~call.shape.truthy
    /\ call.shape.doc = JBool(TRUE)
    /\ Len(call.shape.body) = 1
    /\ call.shape.n = 0
    /\ before.errorPos = 10
    /\ m_errorPos = 4

=============================================================================
